---- MODULE Spec2Model ----
(***************************************************************************)
(* The background broker of the Rerum browser extension: the message       *)
(* listener and its handlers, the CSRF token manager, the inline API       *)
(* client, the document/tab cache in session storage and the SESSION       *)
(* cookie watcher.  Every await of the source is a suspension point: an    *)
(* action runs one continuation, from the completion of the awaited        *)
(* operation to the next await.                                            *)
(***************************************************************************)
EXTENDS Integers, Sequences, FiniteSets, Bags, TLC

\* ---------------------------------------------------------------- bounds
\* Listener invocations that may be in progress together.
MaxReq == 2
\* SESSION cookie changes made from outside the extension.
MaxEpoch == 1
\* Outside cookie changes queued for the watcher at a time.
MaxEvents == 1
\* Rows the server accepts per document.
MaxRows == 1
\* AUTH_STATE_CHANGED broadcasts in flight at a time.
MaxBroadcasts == 1
\* Runs of the badge updater that may be in progress together.
MaxRuns == 2
\* Awaited calls of the side panel that are told apart when they are alike:
\* a further call like MaxCopies awaited ones is not counted.
MaxCopies == 1
\* Sign-in windows the browser creates.
MaxPopups == 2

\* ------------------------------------------------------------- variables
VARIABLES
  req,               \* per async invocation: message, position and locals
  resp,              \* per invocation: the responses passed to sendResponse
  sessionCookie,     \* cookie jar: a SESSION cookie is present
  xsrfCookie,        \* cookie jar: XSRF-TOKEN value (NoToken when absent)
  epoch,             \* number of SESSION cookie changes so far
  csrfFetchInFlight, \* module-level guard: the pending /csrf promise, NoFetch = null
  fetches,           \* /csrf fetch started by each invocation: state, session epoch
  cachedDocuments,   \* session storage: document uuid -> cached entry
  authState,         \* session storage: an auth snapshot is stored
  storageFails,      \* the host currently rejects session-storage writes
  docRows,           \* server: number of rows of each document
  events,            \* cookie-change events not yet delivered to the watcher
  pendingOps,        \* removals requested by the watcher, not yet applied
  broadcasts,        \* AUTH_STATE_CHANGED broadcasts sent and not yet settled
  appHostname,       \* hostname of RERUM_BASE_URL (fixed at build time)
  guardIn, guardOut, \* isValidProductUrl applied to a URL: input and result
  tab,               \* the browser tab: open, its page, the text of its badge
  runs,              \* per run of updateBadgeForTab: position and locals
  localStore,        \* storage.local: the items stored, by key
  ui,                \* side panel: the state of its components
  calls,             \* side panel: the calls it awaits
  env                \* the user's session and the sign-in windows that exist

vars == <<req, resp, sessionCookie, xsrfCookie, epoch, csrfFetchInFlight, fetches,
          cachedDocuments, authState, storageFails, docRows, events, pendingOps,
          broadcasts, appHostname, guardIn, guardOut, tab, runs, localStore,
          ui, calls, env>>

jar == <<sessionCookie, xsrfCookie, epoch>>
csrf == <<csrfFetchInFlight, fetches>>
storage == <<cachedDocuments, authState, storageFails>>
watcher == <<events, pendingOps, broadcasts>>
fixed == <<appHostname, guardIn, guardOut>>
badges == <<tab, runs>>
panel == <<localStore, ui, calls, env>>
broker == <<req, resp, jar, csrf, storage, docRows, watcher, fixed>>

Prefetch == 0
Slots == 1..MaxReq
Procs == {Prefetch} \cup Slots
Docs == {"U", "V"}
NoToken == 0
NoFetch == -1
NoEntry == -1

\* A CSRF token is identified by the session epoch it was minted for.
TokenOf(e) == e + 1
MintEpoch(t) == t - 1

\* ------------------------------------------------------------------ URLs
\* A string is modelled by its sequence of atoms: labels, "." separators and the
\* brackets of an IPv6 literal.
RECURSIVE Dotted(_)
Dotted(labels) ==
  IF Len(labels) = 0 THEN <<>>
  ELSE IF Len(labels) = 1 THEN <<labels[1]>>
  ELSE <<labels[1], ".">> \o Dotted(Tail(labels))

\* The URL parser's IPv4 normalisation: the last part fills the remaining bytes.
Octets(parts) ==
  LET n == Len(parts) IN
  IF n = 4 THEN parts
  ELSE IF n = 3 THEN <<parts[1], parts[2], parts[3] \div 256, parts[3] % 256>>
  ELSE IF n = 2 THEN <<parts[1], parts[2] \div 65536, (parts[2] \div 256) % 256, parts[2] % 256>>
  ELSE <<parts[1] \div 16777216, (parts[1] \div 65536) % 256, (parts[1] \div 256) % 256,
         parts[1] % 256>>

\* new URL(url).hostname
Hostname(u) ==
  IF u.host.kind = "name" THEN Dotted(u.host.labels)
  ELSE IF u.host.kind = "ipv4"
       THEN LET o == Octets(u.host.parts)
            IN  Dotted(<<ToString(o[1]), ToString(o[2]), ToString(o[3]), ToString(o[4])>>)
  ELSE IF u.host.kind = "ipv6" THEN <<"[", u.host.text, "]">>
  ELSE <<>>

StartsWith(s, prefix) ==
  /\ Len(s) >= Len(prefix)
  /\ SubSeq(s, 1, Len(prefix)) = prefix

EndsWith(s, suffix) ==
  /\ Len(s) >= Len(suffix)
  /\ SubSeq(s, Len(s) - Len(suffix) + 1, Len(s)) = suffix

\* /^172\.(1[6-9]|2\d|3[01])\./
Matches172(h) ==
  /\ Len(h) >= 4
  /\ h[1] = "172" /\ h[2] = "." /\ h[4] = "."
  /\ h[3] \in {ToString(n) : n \in 16..31}

isValidProductUrl(u) ==
  IF ~u.parses THEN FALSE
  ELSE IF u.scheme # "http" /\ u.scheme # "https" THEN FALSE
  ELSE LET hostname == Hostname(u) IN
       IF \/ hostname = <<"localhost">>
          \/ hostname = <<"127", ".", "0", ".", "0", ".", "1">>
          \/ hostname = <<"::1">>
       THEN FALSE
       ELSE IF StartsWith(hostname, <<"10", ".">>) THEN FALSE
       ELSE IF Matches172(hostname) THEN FALSE
       ELSE IF StartsWith(hostname, <<"192", ".", "168", ".">>) THEN FALSE
       ELSE TRUE

NameHost(labels) == [kind |-> "name", labels |-> labels, parts |-> <<>>, text |-> ""]
Ipv4Host(parts) == [kind |-> "ipv4", labels |-> <<>>, parts |-> parts, text |-> ""]
Ipv6Host(text) == [kind |-> "ipv6", labels |-> <<>>, parts |-> <<>>, text |-> text]
NoHost == [kind |-> "none", labels |-> <<>>, parts |-> <<>>, text |-> ""]

Hosts ==
  { NameHost(<<"localhost">>), NameHost(<<"shop", "example", "com">>),
    NameHost(<<"10", "example", "com">>), NameHost(<<"example", "com">>),
    Ipv4Host(<<127, 0, 0, 1>>), Ipv4Host(<<127, 1>>), Ipv4Host(<<2130706433>>),
    Ipv4Host(<<127, 0, 0, 2>>), Ipv4Host(<<10, 0, 0, 5>>), Ipv4Host(<<10, 1, 2>>),
    Ipv4Host(<<172, 16, 0, 1>>), Ipv4Host(<<172, 31, 255, 1>>), Ipv4Host(<<172, 15, 0, 1>>),
    Ipv4Host(<<172, 32, 0, 1>>), Ipv4Host(<<192, 168, 1, 1>>), Ipv4Host(<<192, 169, 1, 1>>),
    Ipv4Host(<<8, 8, 8, 8>>), Ipv4Host(<<11, 0, 0, 1>>), Ipv6Host("::1"),
    Ipv6Host("2001:db8::1") }

Unparseable == [parses |-> FALSE, scheme |-> "", host |-> NoHost]
Url(scheme, host) == [parses |-> TRUE, scheme |-> scheme, host |-> host]

UrlInputs ==
  {Unparseable}
    \cup {Url(s, h) : s \in {"http", "https", "ftp"}, h \in Hosts}
    \cup {Url(s, NoHost) : s \in {"javascript", "data", "file", "about"}}

\* The URLs the UI sends with EXTRACT_PRODUCT in the broker specifications.
ProductUrls ==
  { Url("https", NameHost(<<"shop", "example", "com">>)),
    Url("http", Ipv4Host(<<127, 0, 0, 1>>)),
    Url("javascript", NoHost) }

\* ------------------------------------------------------- cookie domains
\* cookie.domain.replace(/^\./, '')
StripLeadingDot(d) == IF Len(d) > 0 /\ d[1] = "." THEN Tail(d) ELSE d

\* Fault: the cookie's domain is compared without stripping its leading dot.
domainMatchesUnstripped(domain) ==
  /\ appHostname # <<>>
  /\ \/ appHostname = domain
     \/ EndsWith(appHostname, <<".">> \o domain)
     \/ (appHostname = <<"localhost">> /\ domain = <<>>)

domainMatches(domain) ==
  LET cookieDomain == StripLeadingDot(domain) IN
  /\ appHostname # <<>>
  /\ \/ appHostname = cookieDomain
     \/ EndsWith(appHostname, <<".">> \o cookieDomain)
     \/ (appHostname = <<"localhost">> /\ cookieDomain = <<>>)

AppHostnames == { <<"app", ".", "rerum", ".", "studio">>, <<"localhost">> }

CookieDomains ==
  { <<>>, <<"app", ".", "rerum", ".", "studio">>, <<".", "rerum", ".", "studio">>,
    <<"studio">>, <<"um", ".", "studio">>, <<"x", ".", "app", ".", "rerum", ".", "studio">>,
    <<"evil", ".", "com">>, <<"localhost">>, <<".", "localhost">> }

\* -------------------------------------------------------------- sanitizer
\* A JSON value handed back by an injected script, by its typeof: s is the text of
\* a string (its sequence of atoms), b the value of a boolean.
Value(t, s, b) == [t |-> t, s |-> s, b |-> b]
Undefined == Value("undefined", <<>>, FALSE)
Number == Value("number", <<>>, FALSE)
Str(s) == Value("string", s, FALSE)
Bool(b) == Value("boolean", <<>>, b)

\* str.substring(0, n)
Substring(str, n) == SubSeq(str, 1, IF Len(str) < n THEN Len(str) ELSE n)

MaxUrlLength == 2000
MaxTitleLength == 500
MaxNameLength == 500
MaxPriceLength == 100
MaxManufacturerLength == 300
MaxImages == 50

\* new URL(s): leading white space is stripped, the scheme is lower-cased and may
\* do without its slashes, an http(s) URL needs a host without forbidden characters,
\* any other scheme takes whatever follows; a string without a scheme does not parse.
SchemeOf(atom) ==
  CASE atom \in {"http:", "HTTP:"} -> "http:"
    [] atom \in {"https:", "HTTPS:"} -> "https:"
    [] atom \in {"javascript:", "data:", "blob:"} -> atom
    [] OTHER -> ""

ValidHosts == {"x.com", "cdn.x.com"}

NotParsed == [parses |-> FALSE, protocol |-> ""]

ParseUrl(s) ==
  LET t == IF s # <<>> /\ Head(s) = " " THEN Tail(s) ELSE s
      protocol == IF t = <<>> THEN "" ELSE SchemeOf(Head(t))
      rest == IF Len(t) >= 2 /\ t[2] = "//" THEN SubSeq(t, 3, Len(t)) ELSE Tail(t)
  IN  IF protocol = "" THEN NotParsed
      ELSE IF protocol \in {"http:", "https:"} /\ (rest = <<>> \/ Head(rest) \notin ValidHosts)
           THEN NotParsed
      ELSE [parses |-> TRUE, protocol |-> protocol]

isValidUrl(url) ==
  LET parsed == ParseUrl(url) IN
  IF ~parsed.parses THEN FALSE
  ELSE parsed.protocol = "http:" \/ parsed.protocol = "https:"

\* str.replace(/<[^>]*>/g, '')
Tags == {"<b>", "</b>", "<script>"}
stripHtml(str) == SelectSeq(str, LAMBDA atom : atom \notin Tags)

\* An object with the one property name when cond holds, else the empty object.
Property(cond, name, value) == IF cond THEN [f \in {name} |-> value] ELSE <<>>

RawHints(t, jsonLd, name, price, image, manufacturer) ==
  [t |-> t, jsonLd |-> jsonLd, name |-> name, price |-> price, image |-> image,
   manufacturer |-> manufacturer]

sanitizeHints(raw) ==
  IF raw.t # "object" THEN <<>>
  ELSE Property(raw.jsonLd.t = "boolean", "jsonLd", raw.jsonLd.b)
         @@ Property(raw.name.t = "string", "name",
                     Substring(stripHtml(raw.name.s), MaxNameLength))
         @@ Property(raw.price.t = "string", "price",
                     Substring(stripHtml(raw.price.s), MaxPriceLength))
         @@ Property(raw.image.t = "string" /\ isValidUrl(raw.image.s), "image",
                     Substring(raw.image.s, MaxUrlLength))
         @@ Property(raw.manufacturer.t = "string", "manufacturer",
                     Substring(stripHtml(raw.manufacturer.s), MaxManufacturerLength))

\* Fault: the price hint does not count.
calculateConfidenceWithoutPrice(hints) ==
  IF "jsonLd" \in DOMAIN hints /\ hints.jsonLd THEN "high"
  ELSE IF "name" \in DOMAIN hints /\ hints.name # <<>> THEN "medium"
  ELSE "low"

\* if (hints.jsonLd) / if (hints.name || hints.price): a missing property, false and
\* the empty string are falsy.
calculateConfidence(hints) ==
  IF "jsonLd" \in DOMAIN hints /\ hints.jsonLd THEN "high"
  ELSE IF \/ ("name" \in DOMAIN hints /\ hints.name # <<>>)
          \/ ("price" \in DOMAIN hints /\ hints.price # <<>>)
       THEN "medium"
  ELSE "low"

\* What the injected extraction routine may hand back (untrusted): t is the typeof
\* of the value ("null" for null), images the list of its images property when
\* that is an array.
RawPage(t, url, title, isArray, images, hints, confidence) ==
  [t |-> t, url |-> url, title |-> title, isArray |-> isArray, images |-> images,
   hints |-> hints, confidence |-> confidence]

Null == [null |-> TRUE]

\* /^https?:\/\//
HasHttpPrefix(url) ==
  /\ Len(url) >= 2
  /\ url[1] \in {"http:", "https:"} /\ url[2] = "//"

sanitizePageData(raw) ==
  IF raw.t # "object" THEN Null
  ELSE LET url == IF raw.url.t = "string" /\ HasHttpPrefix(raw.url.s)
                  THEN Substring(raw.url.s, MaxUrlLength) ELSE <<>>
       IN  IF url = <<>> THEN Null
           ELSE LET title == IF raw.title.t = "string"
                             THEN Substring(stripHtml(raw.title.s), MaxTitleLength) ELSE <<>>
                    valid == SelectSeq(raw.images,
                                       LAMBDA v : v.t = "string" /\ isValidUrl(v.s))
                    images == IF raw.isArray
                              THEN Substring([i \in 1..Len(valid) |->
                                                Substring(valid[i].s, MaxUrlLength)],
                                             MaxImages)
                              ELSE <<>>
                    hints == sanitizeHints(raw.hints)
                    confidence == calculateConfidence(hints)
                IN  [url |-> url, title |-> title, images |-> images, hints |-> hints,
                     confidence |-> confidence]

NoHints == RawHints("undefined", Undefined, Undefined, Undefined, Undefined, Undefined)
NoPage == RawPage("undefined", Undefined, Undefined, FALSE, <<>>, NoHints, Undefined)

GoodUrl == <<"https:", "//", "x.com", "/p">>

UrlValues ==
  { Undefined, Number, Str(<<>>), Str(GoodUrl), Str(<<"http:", "//", "x.com">>),
    Str(<<"http:", "//">>), Str(<<"https:", "//", "a b">>),
    Str(<<"javascript:", "alert(1)">>), Str(<<"data:", "text/html">>),
    Str(<<"HTTPS:", "//", "x.com">>), Str(<<" ", "https:", "//", "x.com">>),
    Str(<<"https:", "x.com">>), Str(<<"x.com">>) }

ImageLists ==
  { <<>>, <<Str(GoodUrl), Number, Str(<<"javascript:", "alert(1)">>), Str(<<"http:", "//">>)>> }

HintsValues ==
  {NoHints, RawHints("string", Undefined, Undefined, Undefined, Undefined, Undefined)}
    \cup { RawHints("object", jsonLd, name, price, Str(<<"data:", "text/html">>),
                    Str(<<"<b>", "Acme", "</b>">>)) :
             jsonLd \in {Undefined, Bool(TRUE), Bool(FALSE), Str(<<"true">>)},
             name \in {Undefined, Number, Str(<<"Widget">>), Str(<<>>), Str(<<"<b>", "</b>">>)},
             price \in {Undefined, Str(<<"9.99">>)} }

RawPages ==
  {NoPage}
    \cup {RawPage(t, Undefined, Undefined, FALSE, <<>>, NoHints, Undefined) :
            t \in {"null", "string", "number"}}
    \cup {RawPage("object", url, Str(<<"<b>", "Hi", "</b>">>), isArray, images,
                  RawHints("object", jsonLd, Undefined, Undefined, Str(GoodUrl), Undefined),
                  Undefined) :
            url \in UrlValues, isArray \in BOOLEAN, images \in ImageLists,
            jsonLd \in {Undefined, Bool(TRUE)}}
    \cup {RawPage("object", Str(GoodUrl), Undefined, FALSE, <<>>, hints, confidence) :
            hints \in HintsValues,
            confidence \in {Undefined, Str(<<"high">>), Str(<<"low">>)}}

\* -------------------------------------------------------------- messages
Message(type, documentUuid, productUrl, tabId) ==
  [type |-> type, documentUuid |-> documentUuid, productUrl |-> productUrl, tabId |-> tabId]

Plain(type) == Message(type, "", Unparseable, FALSE)

GetMessages ==
  {Plain("CHECK_AUTH"), Plain("FETCH_DOCUMENTS"), Plain("FETCH_USAGE")}
    \cup {Message("FETCH_DOCUMENT", d, Unparseable, FALSE) : d \in Docs}

AddRowMessages == {Message("ADD_ROW_TO_DOCUMENT", d, Unparseable, FALSE) : d \in Docs}

ExtractProductMessages ==
  {Message("EXTRACT_PRODUCT", "", u, t) : u \in ProductUrls, t \in BOOLEAN}

\* AUTH_STATE_CHANGED is the broadcast; BOGUS stands for a tag outside the union
\* and null for a message that is no object.
OtherMessages ==
  { Plain("LOGOUT"), Plain("GET_ACTIVE_TAB"), Plain("AUTH_STATE_CHANGED"), Plain("BOGUS"),
    Plain("null"), Message("EXTRACT_PAGE_DATA", "", Unparseable, TRUE) }

AllMessages == GetMessages \cup AddRowMessages \cup ExtractProductMessages \cup OtherMessages

\* What the server answers: status 0 stands for a rejected fetch (network error).
Outcome(status, errorCode) == [status |-> status, errorCode |-> errorCode]
HttpOutcomes ==
  { Outcome(0, "none"), Outcome(200, "none"), Outcome(204, "none"), Outcome(401, "none"),
    Outcome(403, "LIMIT"), Outcome(500, "none") }

ApiError(status, message, errorCode) ==
  [kind |-> "ApiError", status |-> status, message |-> message, errorCode |-> errorCode]
OtherError(message) ==
  [kind |-> "Error", status |-> 0, message |-> message, errorCode |-> "none"]

NoStatus == -1
NoError == [kind |-> "none", status |-> NoStatus, message |-> "", errorCode |-> "none"]

\* One invocation of the listener: the message's fields, the position of its
\* handler, the handler's locals (csrfToken, awaited, docs, rows, body), and what
\* it has done so far (sent, injected, csrfCalls, deleted, got: the HTTP status its
\* API call received, err: the exception its API call threw, handlers: the handlers
\* the listener's switch called, script: how its executeScript call settled, raw:
\* what the injected routine handed back).
IdleReq ==
  [type |-> "NONE", pc |-> "idle", documentUuid |-> "", productUrl |-> Unparseable,
   tabId |-> FALSE, csrfToken |-> NoToken, awaited |-> NoFetch,
   docs |-> [d \in Docs |-> NoEntry], rows |-> 0, body |-> "url-only",
   sent |-> <<>>, injected |-> FALSE, csrfCalls |-> 0, deleted |-> FALSE,
   got |-> NoStatus, err |-> NoError, handlers |-> <<>>,
   script |-> "none", raw |-> NoPage]

NoFetchYet == [state |-> "none", epoch |-> 0]

CookieEvent(name, domain, removed) == [name |-> name, domain |-> domain, removed |-> removed]

\* -------------------------------------------------------------- responses
WithCode(m, e) ==
  IF e.errorCode = "none" THEN m
  ELSE [f \in DOMAIN m \cup {"errorCode"} |-> IF f = "errorCode" THEN e.errorCode ELSE m[f]]

ErrorResponse(status, error) == [type |-> "ERROR", status |-> status, error |-> error]

\* Fault: the catch block hands an exception that is no ApiError to the UI as it is.
RouterCatchRaw(e) ==
  IF e.kind = "ApiError" THEN WithCode(ErrorResponse(e.status, e.message), e)
  ELSE [type |-> "ERROR", error |-> e]

\* The listener's catch block.
RouterCatch(e) ==
  IF e.kind = "ApiError" THEN WithCode(ErrorResponse(e.status, e.message), e)
  ELSE ErrorResponse(0, e.message)

\* Fault: the failure response of a row add drops the HTTP status.
AddRowFailureNoStatus(e) ==
  WithCode([type |-> "ADD_ROW_RESULT", success |-> FALSE, error |-> e.message], e)

AddRowFailure(e) ==
  WithCode([type |-> "ADD_ROW_RESULT", success |-> FALSE, error |-> e.message,
            status |-> e.status], e)

Goto(r, q, pc) ==
  /\ req' = [req EXCEPT ![r] = [q EXCEPT !.pc = pc]]
  /\ UNCHANGED resp

\* sendResponse(m), after which the async invocation ends.
Answer(r, q, m) ==
  /\ req' = [req EXCEPT ![r] = [q EXCEPT !.pc = "done"]]
  /\ resp' = [resp EXCEPT ![r] = Append(@, m)]

\* Fault: the catch block answers ApiErrors only and lets anything else escape.
CatchApiErrorOnly(r, q, e) ==
  IF e.kind = "ApiError" THEN Answer(r, q, RouterCatch(e)) ELSE Goto(r, q, "done")

\* The listener's catch block answers the request.
Catch(r, q, e) == Answer(r, q, RouterCatch(e))

\* Fault: handleCheckAuth takes every ApiError for a missing session.
handleCheckAuthCatchAnyStatus(r, q, e) ==
  IF e.kind = "ApiError"
  THEN Answer(r, q, [type |-> "AUTH_RESULT", isAuthenticated |-> FALSE])
  ELSE Catch(r, q, e)

\* handleCheckAuth's catch block: a 401 is an answer, anything else is rethrown.
handleCheckAuthCatch(r, q, e) ==
  IF e.kind = "ApiError" /\ e.status = 401
  THEN Answer(r, q, [type |-> "AUTH_RESULT", isAuthenticated |-> FALSE])
  ELSE Catch(r, q, e)

\* Fault: handleAddRowToDocument has no catch of its own, so an ApiError of its API
\* call reaches the listener's catch block.
ThrowPastAddRow(r, q, e) ==
  LET t == [q EXCEPT !.err = e] IN
  IF q.type \in {"PREFETCH", "API_PUT"} THEN Goto(r, t, "done")
  ELSE IF q.type = "LOGOUT" THEN Goto(r, t, "logout_rm1")
  ELSE IF q.type = "CHECK_AUTH" THEN handleCheckAuthCatch(r, t, e)
  ELSE Catch(r, t, e)

\* An exception e thrown by the API call of invocation r: the catch block it reaches.
Throw(r, q, e) ==
  LET t == [q EXCEPT !.err = e] IN
  IF q.type \in {"PREFETCH", "API_PUT"} THEN Goto(r, t, "done")
  ELSE IF q.type = "LOGOUT" THEN Goto(r, t, "logout_rm1")
  ELSE IF q.type = "ADD_ROW_TO_DOCUMENT" /\ e.kind = "ApiError"
       THEN Answer(r, t, AddRowFailure(e))
  ELSE IF q.type = "CHECK_AUTH" THEN handleCheckAuthCatch(r, t, e)
  ELSE Catch(r, t, e)

\* ------------------------------------------------------- ensureCsrfToken
\* ensureCsrfToken returns token to its caller: the pre-fetch ends, apiPost and
\* apiPut go on to getSessionToken.
EnsureReturns(r, q, token) ==
  IF q.type = "PREFETCH" THEN Goto(r, q, "done")
  ELSE IF q.type = "API_PUT" THEN Goto(r, [q EXCEPT !.csrfToken = token], "put_sess")
  ELSE Goto(r, [q EXCEPT !.csrfToken = token], "post_sess")

\* Fault: the in-flight handle is consulted before the cookie that was read.
CsrfRead1AwaitsFirst(r) ==
  /\ req[r].pc = "csrf_read1"
  /\ IF csrfFetchInFlight # NoFetch
     THEN Goto(r, [req[r] EXCEPT !.awaited = csrfFetchInFlight], "csrf_await")
     ELSE IF xsrfCookie # NoToken THEN EnsureReturns(r, req[r], xsrfCookie)
     ELSE Goto(r, req[r], "csrf_sess")
  /\ UNCHANGED <<jar, csrf, storage, docRows, watcher, fixed, badges, panel>>

\* The first cookie read resolves: fast path, or the in-flight check.
CsrfRead1(r) ==
  /\ req[r].pc = "csrf_read1"
  /\ IF xsrfCookie # NoToken
     THEN EnsureReturns(r, req[r], xsrfCookie)
     ELSE IF csrfFetchInFlight = NoFetch
          THEN Goto(r, req[r], "csrf_sess")
          ELSE Goto(r, [req[r] EXCEPT !.awaited = csrfFetchInFlight], "csrf_await")
  /\ UNCHANGED <<jar, csrf, storage, docRows, watcher, fixed, badges, panel>>

\* getSessionToken resolves inside the guarded block: the /csrf fetch starts.
CsrfSess(r) ==
  /\ req[r].pc = "csrf_sess"
  /\ fetches' = [fetches EXCEPT ![r] = [state |-> "pending", epoch |-> epoch]]
  /\ csrfFetchInFlight' = r
  /\ Goto(r, [req[r] EXCEPT !.awaited = r, !.csrfCalls = @ + 1], "csrf_await")
  /\ UNCHANGED <<jar, storage, docRows, watcher, fixed, badges, panel>>

\* Fault: only the then callback clears the guard; a failed fetch leaves it set.
CsrfFetchSettleKeepsHandle(f, outcome) ==
  /\ fetches[f].state = "pending"
  /\ csrfFetchInFlight' = IF outcome = "failed" THEN csrfFetchInFlight ELSE NoFetch
  /\ IF outcome = "token"
     THEN /\ fetches' = [fetches EXCEPT ![f].state = "ok"]
          /\ xsrfCookie' = TokenOf(fetches[f].epoch)
          /\ events' = Append(events, CookieEvent("XSRF-TOKEN", appHostname, FALSE))
     ELSE /\ fetches' = [fetches EXCEPT ![f].state =
                           IF outcome = "failed" THEN "failed" ELSE "ok"]
          /\ UNCHANGED <<xsrfCookie, events>>
  /\ UNCHANGED <<req, resp, sessionCookie, epoch, storage, docRows, pendingOps,
                 broadcasts, fixed, badges, panel>>

\* The /csrf fetch f settles and its then/catch callback clears the guard.  The
\* server may set the XSRF-TOKEN cookie, bound to the session the request carried.
CsrfFetchSettle(f, outcome) ==
  /\ fetches[f].state = "pending"
  /\ csrfFetchInFlight' = NoFetch
  /\ IF outcome = "token"
     THEN /\ fetches' = [fetches EXCEPT ![f].state = "ok"]
          /\ xsrfCookie' = TokenOf(fetches[f].epoch)
          /\ events' = Append(events, CookieEvent("XSRF-TOKEN", appHostname, FALSE))
     ELSE /\ fetches' = [fetches EXCEPT ![f].state =
                           IF outcome = "failed" THEN "failed" ELSE "ok"]
          /\ UNCHANGED <<xsrfCookie, events>>
  /\ UNCHANGED <<req, resp, sessionCookie, epoch, storage, docRows, pendingOps,
                 broadcasts, fixed, badges, panel>>

\* await csrfFetchInFlight resumes once the awaited promise has settled.
CsrfAwait(r) ==
  /\ req[r].pc = "csrf_await"
  /\ fetches[req[r].awaited].state \in {"ok", "failed"}
  /\ IF fetches[req[r].awaited].state = "failed"
     THEN Throw(r, req[r], OtherError("Failed to fetch"))
     ELSE Goto(r, req[r], "csrf_read2")
  /\ UNCHANGED <<jar, csrf, storage, docRows, watcher, fixed, badges, panel>>

\* Fault: whatever the second read of the cookie finds is returned as the token.
CsrfRead2Unchecked(r) ==
  /\ req[r].pc = "csrf_read2"
  /\ EnsureReturns(r, req[r], xsrfCookie)
  /\ UNCHANGED <<jar, csrf, storage, docRows, watcher, fixed, badges, panel>>

\* The cookie is read again after the fetch.
CsrfRead2(r) ==
  /\ req[r].pc = "csrf_read2"
  /\ IF xsrfCookie = NoToken
     THEN Throw(r, req[r], ApiError(0, "Could not obtain CSRF token", "none"))
     ELSE EnsureReturns(r, req[r], xsrfCookie)
  /\ UNCHANGED <<jar, csrf, storage, docRows, watcher, fixed, badges, panel>>

\* ------------------------------------------------------------ API client
PathOf(q) ==
  CASE q.type = "CHECK_AUTH" -> "/auth/me"
    [] q.type = "LOGOUT" -> "/auth/logout"
    [] q.type = "FETCH_DOCUMENTS" -> "/estimates"
    [] q.type = "FETCH_DOCUMENT" -> "/document"
    [] q.type = "EXTRACT_PRODUCT" -> "/estimate/dynamic"
    [] q.type = "ADD_ROW_TO_DOCUMENT" -> "/rows"
    [] q.type = "FETCH_USAGE" -> "/subscription/usage"
    [] OTHER -> ""

Sent(q, method, token) ==
  [q EXCEPT !.sent = Append(@, [method |-> method, path |-> PathOf(q), token |-> token,
                                stale |-> token # NoToken /\ MintEpoch(token) < epoch,
                                body |-> q.body])]

\* apiGet: getSessionToken resolves and the GET is sent.
GetSess(r) ==
  /\ req[r].pc = "get_sess"
  /\ Goto(r, Sent(req[r], "GET", NoToken), "get_wait")
  /\ UNCHANGED <<jar, csrf, storage, docRows, watcher, fixed, badges, panel>>

\* Fault: handleFetchDocument caches whatever apiGet ended with, an error included.
GetResponseCachesFailure(r, o) ==
  /\ req[r].pc = "get_wait"
  /\ LET q == [req[r] EXCEPT !.got = o.status] IN
     IF q.type = "FETCH_DOCUMENT"
     THEN Goto(r, [q EXCEPT !.rows = docRows[q.documentUuid],
                            !.err = IF o.status = 200 THEN NoError
                                    ELSE ApiError(o.status, "server message", o.errorCode)],
               "cache_read")
     ELSE IF o.status = 0 THEN Throw(r, req[r], OtherError("Failed to fetch"))
     ELSE IF o.status \notin {200, 204}
          THEN Throw(r, q, ApiError(o.status, "server message", o.errorCode))
     ELSE IF o.status = 204 THEN Throw(r, q, OtherError("Unexpected end of JSON input"))
     ELSE IF q.type = "CHECK_AUTH"
          THEN Answer(r, q, [type |-> "AUTH_RESULT", isAuthenticated |-> TRUE,
                             user |-> "user"])
     ELSE IF q.type = "FETCH_DOCUMENTS"
          THEN Answer(r, q, [type |-> "DOCUMENTS_RESULT"])
     ELSE Answer(r, q, [type |-> "USAGE_RESULT"])
  /\ UNCHANGED <<jar, csrf, storage, docRows, watcher, fixed, badges, panel>>

\* apiGet's response, and the handler's continuation up to its next await.
GetResponse(r, o) ==
  /\ req[r].pc = "get_wait"
  /\ LET q == [req[r] EXCEPT !.got = o.status] IN
     IF o.status = 0 THEN Throw(r, req[r], OtherError("Failed to fetch"))
     ELSE IF o.status \notin {200, 204}
          THEN Throw(r, q, ApiError(o.status, "server message", o.errorCode))
     ELSE IF o.status = 204 THEN Throw(r, q, OtherError("Unexpected end of JSON input"))
     ELSE IF q.type = "CHECK_AUTH"
          THEN Answer(r, q, [type |-> "AUTH_RESULT", isAuthenticated |-> TRUE,
                             user |-> "user"])
     ELSE IF q.type = "FETCH_DOCUMENTS"
          THEN Answer(r, q, [type |-> "DOCUMENTS_RESULT"])
     ELSE IF q.type = "FETCH_USAGE"
          THEN Answer(r, q, [type |-> "USAGE_RESULT"])
     ELSE Goto(r, [q EXCEPT !.rows = docRows[q.documentUuid]], "cache_read")
  /\ UNCHANGED <<jar, csrf, storage, docRows, watcher, fixed, badges, panel>>

\* apiPost: getSessionToken resolves and the POST is sent with the token held.
PostSess(r) ==
  /\ req[r].pc = "post_sess"
  /\ Goto(r, Sent(req[r], "POST", req[r].csrfToken), "post_wait")
  /\ UNCHANGED <<jar, csrf, storage, docRows, watcher, fixed, badges, panel>>

\* apiPost's response, and the handler's continuation up to its next await.
PostResponse(r, o) ==
  /\ req[r].pc = "post_wait"
  /\ (req[r].type = "ADD_ROW_TO_DOCUMENT" /\ o.status \in {200, 204})
       => docRows[req[r].documentUuid] < MaxRows
  /\ LET q == [req[r] EXCEPT !.got = o.status] IN
     IF o.status = 0 THEN Throw(r, req[r], OtherError("Failed to fetch"))
     ELSE IF o.status \notin {200, 204}
          THEN Throw(r, q, ApiError(o.status, "server message", o.errorCode))
     ELSE IF q.type = "LOGOUT" THEN Goto(r, q, "logout_rm1")
     ELSE IF q.type = "ADD_ROW_TO_DOCUMENT" THEN Goto(r, q, "inval_read")
     ELSE IF o.status = 204
          THEN Catch(r, q, OtherError("Cannot convert undefined to object"))
     ELSE Answer(r, q, [type |-> "EXTRACT_RESULT"])
  /\ docRows' = IF o.status \in {200, 204} /\ req[r].type = "ADD_ROW_TO_DOCUMENT"
                THEN [docRows EXCEPT ![req[r].documentUuid] = @ + 1]
                ELSE docRows
  /\ UNCHANGED <<jar, csrf, storage, watcher, fixed, badges, panel>>

\* apiPut is called (no handler of the listener calls it): it starts with
\* ensureCsrfToken.  Its promise settles in pc "done": rejected with err, or
\* resolved when err is NoError.
apiPut(r) ==
  /\ req[r].pc = "idle"
  /\ \A s \in Slots : s < r => req[s].pc # "idle"
  /\ Goto(r, [req[r] EXCEPT !.type = "API_PUT"], "csrf_read1")
  /\ UNCHANGED <<jar, csrf, storage, docRows, watcher, fixed, badges, panel>>

\* apiPut: getSessionToken resolves and the PUT is sent with the token held.
PutSess(r) ==
  /\ req[r].pc = "put_sess"
  /\ Goto(r, Sent(req[r], "PUT", req[r].csrfToken), "put_wait")
  /\ UNCHANGED <<jar, csrf, storage, docRows, watcher, fixed, badges, panel>>

\* apiPut's response: any 2xx response has its body parsed as JSON, and a 204
\* has no body to parse.
PutResponse(r, o) ==
  /\ req[r].pc = "put_wait"
  /\ LET q == [req[r] EXCEPT !.got = o.status] IN
     IF o.status = 0 THEN Throw(r, req[r], OtherError("Failed to fetch"))
     ELSE IF o.status \notin {200, 204}
          THEN Throw(r, q, ApiError(o.status, "server message", o.errorCode))
     ELSE IF o.status = 204 THEN Throw(r, q, OtherError("Unexpected end of JSON input"))
     ELSE Goto(r, q, "done")
  /\ UNCHANGED <<jar, csrf, storage, docRows, watcher, fixed, badges, panel>>

\* --------------------------------------------------- document/tab cache
\* cacheDocumentTabs: the read of cachedDocuments resolves, the entry is put into
\* the copy read and the write is issued.
CacheRead(r) ==
  /\ req[r].pc = "cache_read"
  /\ Goto(r, [req[r] EXCEPT
                !.docs = [cachedDocuments EXCEPT ![req[r].documentUuid] = req[r].rows]],
          "cache_write")
  /\ UNCHANGED <<jar, csrf, storage, docRows, watcher, fixed, badges, panel>>

\* cacheDocumentTabs: the write resolves or rejects (caught by handleFetchDocument).
CacheWrite(r) ==
  /\ req[r].pc = "cache_write"
  /\ cachedDocuments' = IF storageFails THEN cachedDocuments ELSE req[r].docs
  /\ Answer(r, req[r], [type |-> "DOCUMENT_RESULT", rows |-> req[r].rows])
  /\ UNCHANGED <<jar, csrf, authState, storageFails, docRows, watcher, fixed, badges, panel>>

\* invalidateDocumentCache: the read resolves; the entry, if any, is deleted from
\* the copy read and the write is issued.
InvalRead(r) ==
  /\ req[r].pc = "inval_read"
  /\ IF cachedDocuments[req[r].documentUuid] # NoEntry
     THEN Goto(r, [req[r] EXCEPT
                     !.docs = [cachedDocuments EXCEPT ![req[r].documentUuid] = NoEntry],
                     !.deleted = TRUE],
               "inval_write")
     ELSE Answer(r, req[r], [type |-> "ADD_ROW_RESULT", success |-> TRUE])
  /\ UNCHANGED <<jar, csrf, storage, docRows, watcher, fixed, badges, panel>>

\* Fault: the invalidation deletes from its copy and never writes the copy back.
InvalWriteOmitted(r) ==
  /\ req[r].pc = "inval_write"
  /\ Answer(r, req[r], [type |-> "ADD_ROW_RESULT", success |-> TRUE])
  /\ UNCHANGED <<jar, csrf, storage, docRows, watcher, fixed, badges, panel>>

\* invalidateDocumentCache: the write resolves or rejects (caught, logged).
InvalWrite(r) ==
  /\ req[r].pc = "inval_write"
  /\ cachedDocuments' = IF storageFails THEN cachedDocuments ELSE req[r].docs
  /\ Answer(r, req[r], [type |-> "ADD_ROW_RESULT", success |-> TRUE])
  /\ UNCHANGED <<jar, csrf, authState, storageFails, docRows, watcher, fixed, badges, panel>>

\* ---------------------------------------------------------------- handlers
\* handleLogout: cookies.remove(SESSION) resolves.
LogoutRm1(r) ==
  /\ req[r].pc = "logout_rm1"
  /\ IF sessionCookie
     THEN /\ sessionCookie' = FALSE
          /\ epoch' = epoch + 1
          /\ events' = Append(events, CookieEvent("SESSION", appHostname, TRUE))
     ELSE UNCHANGED <<sessionCookie, epoch, events>>
  /\ Goto(r, req[r], "logout_rm2")
  /\ UNCHANGED <<xsrfCookie, csrf, storage, docRows, pendingOps, broadcasts, fixed, badges, panel>>

\* Fault: handleLogout acknowledges without telling the side panels.
LogoutRm2NoBroadcast(r) ==
  /\ req[r].pc = "logout_rm2"
  /\ IF xsrfCookie # NoToken
     THEN /\ xsrfCookie' = NoToken
          /\ events' = Append(events, CookieEvent("XSRF-TOKEN", appHostname, TRUE))
     ELSE UNCHANGED <<xsrfCookie, events>>
  /\ Answer(r, req[r], [type |-> "LOGOUT_RESULT"])
  /\ UNCHANGED <<sessionCookie, epoch, csrf, storage, docRows, pendingOps, broadcasts, fixed,
                 badges, panel>>

\* handleLogout: cookies.remove(XSRF-TOKEN) resolves, the broadcast is sent and
\* the request is acknowledged.
LogoutRm2(r) ==
  /\ req[r].pc = "logout_rm2"
  /\ broadcasts < MaxBroadcasts
  /\ IF xsrfCookie # NoToken
     THEN /\ xsrfCookie' = NoToken
          /\ events' = Append(events, CookieEvent("XSRF-TOKEN", appHostname, TRUE))
     ELSE UNCHANGED <<xsrfCookie, events>>
  /\ broadcasts' = broadcasts + 1
  /\ Answer(r, req[r], [type |-> "LOGOUT_RESULT"])
  /\ UNCHANGED <<sessionCookie, epoch, csrf, storage, docRows, pendingOps, fixed, badges, panel>>

\* Fault: a rejected executeScript is not caught inside handleExtractProduct.
InjectContentFatal(r, result) ==
  /\ req[r].pc = "inject" /\ req[r].type = "EXTRACT_PRODUCT"
  /\ IF result = "failed"
     THEN Catch(r, [req[r] EXCEPT !.script = result],
                OtherError("Cannot access contents of the page"))
     ELSE Goto(r, [req[r] EXCEPT !.body = IF result = "content" THEN "with-content"
                                          ELSE "url-only",
                                 !.script = result],
               "csrf_read1")
  /\ UNCHANGED <<jar, csrf, storage, docRows, watcher, fixed, badges, panel>>

\* handleExtractProduct: executeScript(extractPageContent) settles; apiPost starts.
InjectContent(r, result) ==
  /\ req[r].pc = "inject" /\ req[r].type = "EXTRACT_PRODUCT"
  /\ Goto(r, [req[r] EXCEPT !.body = IF result = "content" THEN "with-content" ELSE "url-only",
                            !.script = result],
          "csrf_read1")
  /\ UNCHANGED <<jar, csrf, storage, docRows, watcher, fixed, badges, panel>>

\* Fault: handleExtractPageData hands on whatever the sanitizer returned.
InjectPageDataUnchecked(r, ok, raw) ==
  /\ req[r].pc = "inject" /\ req[r].type = "EXTRACT_PAGE_DATA"
  /\ ~ok => raw = NoPage
  /\ LET q == [req[r] EXCEPT !.script = IF ok THEN "data" ELSE "failed", !.raw = raw]
     IN  IF ~ok THEN Answer(r, q, ErrorResponse(0, "No permission to access this page"))
         ELSE Answer(r, q, [type |-> "PAGE_DATA_RESULT", pageData |-> sanitizePageData(raw)])
  /\ UNCHANGED <<jar, csrf, storage, docRows, watcher, fixed, badges, panel>>

\* handleExtractPageData: executeScript(extractPageData) settles.
InjectPageData(r, ok, raw) ==
  /\ req[r].pc = "inject" /\ req[r].type = "EXTRACT_PAGE_DATA"
  /\ ~ok => raw = NoPage
  /\ LET q == [req[r] EXCEPT !.script = IF ok THEN "data" ELSE "failed", !.raw = raw]
         pageData == sanitizePageData(raw)
     IN  IF ~ok THEN Answer(r, q, ErrorResponse(0, "No permission to access this page"))
         ELSE IF pageData = Null
              THEN Answer(r, q, ErrorResponse(0, "Could not extract page data from this tab"))
         ELSE Answer(r, q, [type |-> "PAGE_DATA_RESULT", pageData |-> pageData])
  /\ UNCHANGED <<jar, csrf, storage, docRows, watcher, fixed, badges, panel>>

\* handleGetActiveTab: tabs.query settles (a rejection is caught and answered too).
TabsQuery(r) ==
  /\ req[r].pc = "tabs_query"
  /\ Answer(r, req[r], [type |-> "ACTIVE_TAB_RESULT"])
  /\ UNCHANGED <<jar, csrf, storage, docRows, watcher, fixed, badges, panel>>

\* Fault: the page script is injected before the guard is consulted.
handleExtractProductInjectsFirst(r, q) ==
  IF q.tabId THEN Goto(r, [q EXCEPT !.injected = TRUE], "inject")
  ELSE IF ~isValidProductUrl(q.productUrl)
       THEN Throw(r, q, ApiError(400, "Invalid product URL", "none"))
  ELSE Goto(r, q, "csrf_read1")

\* handleExtractProduct up to its first await: the guard, then the page-script
\* injection when a tab was named, else apiPost.
handleExtractProduct(r, q) ==
  IF ~isValidProductUrl(q.productUrl)
  THEN Throw(r, q, ApiError(400, "Invalid product URL", "none"))
  ELSE IF q.tabId THEN Goto(r, [q EXCEPT !.injected = TRUE], "inject")
  ELSE Goto(r, q, "csrf_read1")

\* Fault: the switch has no default branch, so a message with an unknown tag ends
\* the invocation without a response.
DispatchNoDefault(r, q) ==
  LET call(h) == [q EXCEPT !.handlers = Append(@, h)] IN
  IF q.type = "null" THEN Catch(r, q, OtherError("Cannot read properties of null"))
  ELSE IF q.type = "CHECK_AUTH" THEN Goto(r, call("handleCheckAuth"), "get_sess")
  ELSE IF q.type = "FETCH_DOCUMENTS" THEN Goto(r, call("handleFetchDocuments"), "get_sess")
  ELSE IF q.type = "FETCH_DOCUMENT" THEN Goto(r, call("handleFetchDocument"), "get_sess")
  ELSE IF q.type = "EXTRACT_PRODUCT"
       THEN handleExtractProduct(r, call("handleExtractProduct"))
  ELSE IF q.type = "ADD_ROW_TO_DOCUMENT"
       THEN Goto(r, call("handleAddRowToDocument"), "csrf_read1")
  ELSE IF q.type = "EXTRACT_PAGE_DATA"
       THEN Goto(r, [call("handleExtractPageData") EXCEPT !.injected = TRUE], "inject")
  ELSE IF q.type = "FETCH_USAGE" THEN Goto(r, call("handleFetchUsage"), "get_sess")
  ELSE IF q.type = "GET_ACTIVE_TAB" THEN Goto(r, call("handleGetActiveTab"), "tabs_query")
  ELSE IF q.type = "LOGOUT" THEN Goto(r, call("handleLogout"), "csrf_read1")
  ELSE Goto(r, q, "done")

\* The listener's switch on message.type, up to the first await of the handler it
\* calls; reading the type of a message that is no object throws.
Dispatch(r, q) ==
  LET call(h) == [q EXCEPT !.handlers = Append(@, h)] IN
  IF q.type = "null" THEN Catch(r, q, OtherError("Cannot read properties of null"))
  ELSE IF q.type = "CHECK_AUTH" THEN Goto(r, call("handleCheckAuth"), "get_sess")
  ELSE IF q.type = "FETCH_DOCUMENTS" THEN Goto(r, call("handleFetchDocuments"), "get_sess")
  ELSE IF q.type = "FETCH_DOCUMENT" THEN Goto(r, call("handleFetchDocument"), "get_sess")
  ELSE IF q.type = "EXTRACT_PRODUCT"
       THEN handleExtractProduct(r, call("handleExtractProduct"))
  ELSE IF q.type = "ADD_ROW_TO_DOCUMENT"
       THEN Goto(r, call("handleAddRowToDocument"), "csrf_read1")
  ELSE IF q.type = "EXTRACT_PAGE_DATA"
       THEN Goto(r, [call("handleExtractPageData") EXCEPT !.injected = TRUE], "inject")
  ELSE IF q.type = "FETCH_USAGE" THEN Goto(r, call("handleFetchUsage"), "get_sess")
  ELSE IF q.type = "GET_ACTIVE_TAB" THEN Goto(r, call("handleGetActiveTab"), "tabs_query")
  ELSE IF q.type = "LOGOUT" THEN Goto(r, call("handleLogout"), "csrf_read1")
  ELSE Answer(r, q, ErrorResponse(0, "Unknown message type"))

\* Fault: the listener has no guard for the broadcast tag and hands every message
\* to the switch.
OnMessageUnguarded(r, m) ==
  /\ req[r].pc = "idle"
  /\ \A s \in Slots : s < r => req[s].pc # "idle"
  /\ Dispatch(r, [req[r] EXCEPT !.type = m.type, !.documentUuid = m.documentUuid,
                                !.productUrl = m.productUrl, !.tabId = m.tabId])
  /\ UNCHANGED <<jar, csrf, storage, docRows, watcher, fixed, badges, panel>>

\* The runtime.onMessage listener: the broadcast tag is acknowledged at once; any
\* other message runs its handler up to the handler's first await.
OnMessage(r, m) ==
  /\ req[r].pc = "idle"
  /\ \A s \in Slots : s < r => req[s].pc # "idle"
  /\ LET q == [req[r] EXCEPT !.type = m.type, !.documentUuid = m.documentUuid,
                             !.productUrl = m.productUrl, !.tabId = m.tabId]
     IN  IF m.type = "AUTH_STATE_CHANGED" THEN Answer(r, q, [type |-> "LOGOUT_RESULT"])
         ELSE Dispatch(r, q)
  /\ UNCHANGED <<jar, csrf, storage, docRows, watcher, fixed, badges, panel>>

\* ---------------------------------------------------------- cookie watcher
\* The host's cookie store changes a cookie and queues the onChanged event.  A
\* SESSION cookie of the target host starts a new session epoch.
CookieChanged(ev) ==
  /\ Len(events) < MaxEvents
  /\ events' = Append(events, ev)
  /\ IF ev.name = "SESSION" /\ domainMatches(ev.domain)
     THEN /\ epoch < MaxEpoch
          /\ ev.removed => sessionCookie
          /\ sessionCookie' = ~ev.removed
          /\ epoch' = epoch + 1
     ELSE UNCHANGED <<sessionCookie, epoch>>
  /\ UNCHANGED <<req, resp, xsrfCookie, csrf, storage, docRows, pendingOps, broadcasts, fixed, badges, panel>>

\* Fault: the watcher reacts to the removal of the XSRF-TOKEN cookie as well.
OnCookieChangedAnyName ==
  /\ Len(events) > 0
  /\ events' = Tail(events)
  /\ LET cookie == Head(events) IN
     IF cookie.name \in {"SESSION", "XSRF-TOKEN"} /\ domainMatches(cookie.domain)
     THEN /\ broadcasts < MaxBroadcasts
          /\ pendingOps' = [xsrf |-> pendingOps.xsrf + 1,
                            auth |-> pendingOps.auth + (IF cookie.removed THEN 1 ELSE 0)]
          /\ broadcasts' = broadcasts + 1
     ELSE UNCHANGED <<pendingOps, broadcasts>>
  /\ UNCHANGED <<req, resp, jar, csrf, storage, docRows, fixed, badges, panel>>

\* Fault: the watcher invalidates the token and forgets the auth snapshot.
OnCookieChangedKeepsSnapshot ==
  /\ Len(events) > 0
  /\ events' = Tail(events)
  /\ LET cookie == Head(events) IN
     IF cookie.name = "SESSION" /\ domainMatches(cookie.domain)
     THEN /\ broadcasts < MaxBroadcasts
          /\ pendingOps' = [pendingOps EXCEPT !.xsrf = @ + 1]
          /\ broadcasts' = broadcasts + 1
     ELSE UNCHANGED <<pendingOps, broadcasts>>
  /\ UNCHANGED <<req, resp, jar, csrf, storage, docRows, fixed, badges, panel>>

\* The cookies.onChanged listener handles the next event.
OnCookieChanged ==
  /\ Len(events) > 0
  /\ events' = Tail(events)
  /\ LET cookie == Head(events) IN
     IF cookie.name = "SESSION" /\ domainMatches(cookie.domain)
     THEN /\ broadcasts < MaxBroadcasts
          /\ pendingOps' = [xsrf |-> pendingOps.xsrf + 1,
                            auth |-> pendingOps.auth + (IF cookie.removed THEN 1 ELSE 0)]
          /\ broadcasts' = broadcasts + 1
     ELSE UNCHANGED <<pendingOps, broadcasts>>
  /\ UNCHANGED <<req, resp, jar, csrf, storage, docRows, fixed, badges, panel>>

\* The host carries out a cookies.remove(XSRF-TOKEN) the watcher asked for.
ApplyXsrfRemove ==
  /\ pendingOps.xsrf > 0
  /\ pendingOps' = [pendingOps EXCEPT !.xsrf = @ - 1]
  /\ IF xsrfCookie # NoToken
     THEN /\ xsrfCookie' = NoToken
          /\ events' = Append(events, CookieEvent("XSRF-TOKEN", appHostname, TRUE))
     ELSE UNCHANGED <<xsrfCookie, events>>
  /\ UNCHANGED <<req, resp, sessionCookie, epoch, csrf, storage, docRows, broadcasts, fixed, badges, panel>>

\* The host carries out a storage.session.remove(['authState']) the watcher asked for.
ApplyAuthRemove ==
  /\ pendingOps.auth > 0
  /\ pendingOps' = [pendingOps EXCEPT !.auth = @ - 1]
  /\ authState' = FALSE
  /\ UNCHANGED <<req, resp, jar, csrf, cachedDocuments, storageFails, docRows, events,
                 broadcasts, fixed, badges, panel>>

\* A broadcast settles: a listener received it, or there was none and the
\* rejection was swallowed.
BroadcastSettles ==
  /\ broadcasts > 0
  /\ broadcasts' = broadcasts - 1
  /\ UNCHANGED <<req, resp, jar, csrf, storage, docRows, events, pendingOps, fixed, badges, panel>>

\* The invocation of a message has ended and its response was delivered: the
\* slot is free for the next message.
Release(r) ==
  /\ req[r].pc = "done"
  /\ fetches[r].state # "pending"
  /\ \A p \in Procs : req[p].pc = "csrf_await" => req[p].awaited # r
  /\ req' = [req EXCEPT ![r] = IdleReq]
  /\ resp' = [resp EXCEPT ![r] = <<>>]
  /\ fetches' = [fetches EXCEPT ![r] = NoFetchYet]
  /\ UNCHANGED <<jar, csrfFetchInFlight, storage, docRows, watcher, fixed, badges, panel>>

\* The host starts or stops rejecting session-storage writes.
StorageFlip ==
  /\ storageFails' = ~storageFails
  /\ UNCHANGED <<req, resp, jar, csrf, cachedDocuments, authState, docRows, watcher, fixed, badges, panel>>

\* ----------------------------------------------------------- badge updater
Runs == 1..MaxRuns

\* The page a tab shows: its URL as tabs.get reports it (empty when withheld),
\* whether a script may be injected, and what extractPageData hands back there.
TabPage(url, scriptable, raw) == [url |-> url, scriptable |-> scriptable, raw |-> raw]

BadgePages ==
  {NoPage}
    \cup {raw \in RawPages :
            /\ ~raw.isArray /\ raw.images = <<>> /\ raw.title # Undefined
            /\ raw.url \in {Str(GoodUrl), Str(<<"javascript:", "alert(1)">>)}}
    \cup {raw \in RawPages :
            /\ raw.confidence = Str(<<"high">>) /\ raw.hints.t = "object"
            /\ raw.hints.jsonLd \in {Undefined, Bool(FALSE)}
            /\ raw.hints.name = Str(<<"Widget">>) /\ raw.hints.price = Undefined}

NewTabPage == TabPage(<<"chrome:", "//", "newtab">>, FALSE, NoPage)

TabPages ==
  {NewTabPage, TabPage(<<>>, FALSE, NoPage), TabPage(GoodUrl, FALSE, NoPage)}
    \cup {TabPage(GoodUrl, TRUE, raw) : raw \in BadgePages}

\* One run of updateBadgeForTab: its position, the text of its pending
\* setBadgeText call, and what it has met so far (scripted: executeScript
\* resolved, raw: with this result; wrote: the texts it has set).
IdleRun == [pc |-> "idle", text |-> "", scripted |-> FALSE, raw |-> NoPage, wrote |-> <<>>]

RunGoto(n, run, pc) == runs' = [runs EXCEPT ![n] = [run EXCEPT !.pc = pc]]

NoRunInProgress == \A n \in Runs : runs[n].pc \in {"idle", "done"}

\* tabs.onActivated, or tabs.onUpdated with status complete: updateBadgeForTab is
\* called and awaits tabs.get.  tab.fresh records that an event has fired for the
\* page the tab shows.
TabEvent(n) ==
  /\ tab.open
  /\ runs[n].pc = "idle" /\ \A k \in Runs : k < n => runs[k].pc # "idle"
  /\ RunGoto(n, runs[n], "tabs_get")
  /\ tab' = [tab EXCEPT !.fresh = TRUE]
  /\ UNCHANGED <<broker, panel>>

\* tabs.get settles: a tab without an http(s) URL has its badge cleared, any other
\* has the extraction routine injected; a closed tab rejects.
TabsGet(n) ==
  /\ runs[n].pc = "tabs_get"
  /\ IF ~tab.open THEN RunGoto(n, runs[n], "catch")
     ELSE IF tab.page.url = <<>> \/ ~HasHttpPrefix(tab.page.url)
          THEN RunGoto(n, [runs[n] EXCEPT !.text = ""], "set_text")
     ELSE RunGoto(n, runs[n], "execute")
  /\ UNCHANGED <<broker, tab, panel>>

\* executeScript settles: the result is sanitized and setBadgeText is called with
\* the indicator for confidence high, with the empty text otherwise.
ExecuteScript(n) ==
  /\ runs[n].pc = "execute"
  /\ IF ~tab.open \/ ~tab.page.scriptable THEN RunGoto(n, runs[n], "catch")
     ELSE LET pageData == sanitizePageData(tab.page.raw)
              text == IF pageData # Null /\ pageData.confidence = "high" THEN "!" ELSE ""
          IN  RunGoto(n, [runs[n] EXCEPT !.scripted = TRUE, !.raw = tab.page.raw,
                                         !.text = text],
                      "set_text")
  /\ UNCHANGED <<broker, tab, panel>>

\* Fault: a rejection inside the run is not caught and the badge stays as it was.
SetBadgeTextOrGiveUp(n) ==
  /\ runs[n].pc \in {"set_text", "catch"}
  /\ IF ~tab.open \/ runs[n].pc = "catch"
     THEN RunGoto(n, runs[n], "done") /\ UNCHANGED tab
     ELSE /\ tab' = [tab EXCEPT !.badge = runs[n].text]
          /\ RunGoto(n, [runs[n] EXCEPT !.wrote = Append(@, runs[n].text)],
                     IF runs[n].text = "!" THEN "set_color" ELSE "done")
  /\ UNCHANGED <<broker, panel>>

\* setBadgeText settles, in the try block or in the catch block: the tab's badge
\* has the text, or the tab is closed and the call rejects.
SetBadgeText(n) ==
  /\ runs[n].pc \in {"set_text", "catch"}
  /\ LET text == IF runs[n].pc = "catch" THEN "" ELSE runs[n].text IN
     IF ~tab.open
     THEN RunGoto(n, runs[n], IF runs[n].pc = "catch" THEN "done" ELSE "catch")
          /\ UNCHANGED tab
     ELSE /\ tab' = [tab EXCEPT !.badge = text]
          /\ RunGoto(n, [runs[n] EXCEPT !.wrote = Append(@, text)],
                     IF runs[n].pc = "set_text" /\ text = "!" THEN "set_color" ELSE "done")
  /\ UNCHANGED <<broker, panel>>

\* setBadgeBackgroundColor settles.
SetBadgeBackgroundColor(n) ==
  /\ runs[n].pc = "set_color"
  /\ RunGoto(n, runs[n], IF tab.open THEN "done" ELSE "catch")
  /\ UNCHANGED <<broker, tab, panel>>

\* The run has ended; its promise, with the no-op catch of the listener, is dropped.
RunEnds(n) ==
  /\ runs[n].pc = "done"
  /\ runs' = [runs EXCEPT ![n] = IdleRun]
  /\ UNCHANGED <<broker, tab, panel>>

\* The tab loads another page; the browser drops the tab's badge or keeps it.
Navigate(page, keeps) ==
  /\ tab.open /\ page # tab.page
  /\ tab' = [tab EXCEPT !.page = page, !.badge = IF keeps THEN @ ELSE "", !.fresh = FALSE]
  /\ UNCHANGED <<broker, runs, panel>>

\* The tab is closed, and its badge with it.
CloseTab ==
  /\ tab.open
  /\ tab' = [tab EXCEPT !.open = FALSE, !.badge = ""]
  /\ UNCHANGED <<broker, runs, panel>>

\* --------------------------------------------------- side panel: React state
\* ui is the state of the side panel's components after a render; "" stands for
\* null, 0 for no window, and a document is known by its uuid.  calls is the bag
\* of the panel's calls that have not settled yet: messages to the service
\* worker, a storage.local read, the creation of a window.  A call records what
\* its continuation closed over (arg, tab, then), the answer once it is
\* determined, and two marks: old, the call was issued before the panel last
\* saw a logout; latest, it is the CHECK_AUTH issued last.  env is what the
\* browser and the server hold: the user's session and the open sign-in windows.
TabsOf(d) == IF d = "U" THEN <<"tab-1", "tab-2">> ELSE <<"tab-9">>
ProductPage == "https://shop.example/p"
TabUrls == {"", ProductPage, "chrome://newtab"}

\* The calls whose answers carry data of the user's session.
Fetches == {"FETCH_USAGE", "FETCH_DOCUMENTS", "FETCH_DOCUMENT", "GET_ACTIVE_TAB",
            "EXTRACT_PAGE_DATA", "EXTRACT_PRODUCT", "ADD_ROW_TO_DOCUMENT", "storage.get"}

Call(type, arg, then) ==
  [type |-> type, arg |-> arg, tab |-> "", then |-> then,
   id |-> 0,
   old |-> FALSE, latest |-> FALSE, answer |-> "none"]

\* useState initial values with no cached auth state, after the mount effects:
\* the initial check is on its way and the spinner shows.
Mounted ==
  [isAuthenticated |-> FALSE, isLoading |-> TRUE, appState |-> "loading",
   documents |-> <<>>, pageData |-> "", pageDataLoading |-> FALSE,
   extractedData |-> "", selectedDocumentUuid |-> "", selectedTabId |-> "",
   selectedDocument |-> "", usage |-> "", successInfo |-> "", errorMessage |-> "",
   pendingReExtract |-> FALSE, pendingExtractAfterGrant |-> FALSE,
   hasRestoredSelection |-> FALSE, popupWindowId |-> 0, popupOpen |-> FALSE,
   prior |-> {}, manual |-> "", checkedBy |-> "runInitialCheck"]

Now == [ui |-> ui, calls |-> calls, env |-> env]

RECURSIVE Copies(_, _)
Copies(S, B) ==
  IF S = {} THEN 0
  ELSE LET c == CHOOSE x \in S : TRUE IN B[c] + Copies(S \ {c}, B)

\* The bag B with every call c replaced by F(c).
Relabel(B, F(_)) ==
  LET S == BagToSet(B)
  IN  [t \in {F(c) : c \in S} |->
         LET n == Copies({c \in S : F(c) = t}, B)
         IN  IF n < MaxCopies THEN n ELSE MaxCopies]

Send(s, c) ==
  IF CopiesIn(c, s.calls) < MaxCopies THEN [s EXCEPT !.calls = @ (+) SetToBag({c})]
  ELSE s
Take(s, c) == [s EXCEPT !.calls = @ (-) SetToBag({c})]
Awaited(c, type) == c \in BagToSet(calls) /\ c.type = type

\* The calls awaited now.
Awaiting == BagToSet(calls)

\* A state setter fed from the answer to call c; prior remembers the fields
\* whose value came from a call issued before the last logout.
Put(s, field, value, c) ==
  [s EXCEPT !.ui[field] = value,
            !.ui.prior = IF c.old /\ value # "" THEN @ \cup {field} ELSE @ \ {field}]

\* checkAuth up to its await, called by refetch: CHECK_AUTH is sent; nothing is
\* recorded about earlier checks.  checkedBy remembers the caller of refetch.
checkAuth(s, caller) ==
  Send([s EXCEPT !.ui.checkedBy = caller,
                 !.calls = Relabel(@, LAMBDA c : IF c.type = "CHECK_AUTH"
                                               THEN [c EXCEPT !.latest = FALSE]
                                               ELSE c)],
       [Call("CHECK_AUTH", "", "refetch") EXCEPT !.latest = TRUE])

fetchPageData(s) ==
  Send([s EXCEPT !.ui.pageDataLoading = TRUE],
       Call("GET_ACTIVE_TAB", "", "fetchPageData"))

doExtract(s) ==
  IF s.ui.pageData = "" THEN s
  ELSE Send([s EXCEPT !.ui.appState = "extracting", !.ui.errorMessage = ""],
            Call("EXTRACT_PRODUCT", s.ui.selectedDocumentUuid, "doExtract"))

\* The effects that depend on isAuthenticated, run when it changes: on logout
\* the clearing effect; on login fetchPageData, FETCH_USAGE, useDocuments'
\* FETCH_DOCUMENTS and AuthGate's closing of the sign-in window.
setIsAuthenticated(s, v) ==
  IF v = s.ui.isAuthenticated THEN s
  ELSE IF ~v
  THEN [s EXCEPT !.ui = [@ EXCEPT !.isAuthenticated = FALSE, !.pageData = "",
                                  !.extractedData = "", !.selectedDocumentUuid = "",
                                  !.selectedTabId = "", !.selectedDocument = "",
                                  !.usage = "", !.successInfo = "",
                                  !.errorMessage = "", !.hasRestoredSelection = FALSE,
                                  !.prior = {}, !.manual = ""],
                 !.calls = Relabel(@, LAMBDA c : IF c.type \in Fetches
                                               THEN [c EXCEPT !.old = TRUE]
                                               ELSE c)]
  ELSE LET closed == s.ui.popupWindowId # 0
           t == [s EXCEPT !.ui.isAuthenticated = TRUE,
                          !.ui.popupWindowId = 0,
                          !.ui.popupOpen = IF closed THEN FALSE ELSE @,
                          !.env.windows = @ \ {s.ui.popupWindowId}]
       IN  fetchPageData(Send(Send(t, Call("FETCH_USAGE", "", "mount")),
                              Call("FETCH_DOCUMENTS", "", "useDocuments")))

\* The appState derivation effect, run when isLoading or isAuthenticated
\* changed between the renders before and s.
Derive(before, s) ==
  IF /\ before.ui.isLoading = s.ui.isLoading
     /\ before.ui.isAuthenticated = s.ui.isAuthenticated
  THEN s
  ELSE [s EXCEPT !.ui.appState = IF s.ui.isLoading THEN "loading"
                                 ELSE IF ~s.ui.isAuthenticated THEN "not-authenticated"
                                 ELSE IF @ \in {"loading", "not-authenticated"} THEN "idle"
                                 ELSE @]

\* The effects whose conditions are over their own dependencies: the two
\* pending extractions and the restoration of the last selection.
Effects(s) ==
  LET a == IF /\ s.ui.pendingReExtract /\ s.ui.selectedDocumentUuid # ""
              /\ s.ui.selectedDocument # "" /\ s.ui.pageData # ""
           THEN doExtract([s EXCEPT !.ui.pendingReExtract = FALSE]) ELSE s
      b == IF /\ s.ui.pendingExtractAfterGrant /\ ~s.ui.pageDataLoading
              /\ s.ui.pageData # ""
           THEN doExtract([a EXCEPT !.ui.pendingExtractAfterGrant = FALSE]) ELSE a
  IN  IF b.ui.isAuthenticated /\ b.ui.documents # <<>> /\ ~b.ui.hasRestoredSelection
      THEN Send([b EXCEPT !.ui.hasRestoredSelection = TRUE],
                Call("storage.get", "", "restore"))
      ELSE b

\* The render after a step that left the panel as s: the effects run.
Commit(s) ==
  /\ \E r \in {s} : \E t \in {Effects(r)} :
       ui' = t.ui /\ calls' = t.calls /\ env' = t.env
  /\ UNCHANGED <<broker, badges>>

\* The children of AuthGate are rendered.
Shown == ui.isAuthenticated /\ ~ui.isLoading
SelectorShown ==
  /\ Shown /\ ui.documents # <<>>
  /\ \/ ui.appState = "idle"
     \/ ui.appState = "preview" /\ ui.extractedData # ""

\* ---- useAuth and the polling of App
\* The service worker's handleCheckAuth determines its answer from the session
\* there is at that moment.
CheckAuthHandled(c) ==
  /\ Awaited(c, "CHECK_AUTH") /\ c.answer = "none"
  /\ Commit(Send(Take(Now, c),
                 [c EXCEPT !.answer = IF env.loggedIn THEN "yes" ELSE "no"]))
  /\ UNCHANGED localStore

\* checkAuth after its await, and runInitialCheck after its own.
CheckAuthSettles(c) ==
  /\ Awaited(c, "CHECK_AUTH") /\ c.answer # "none"
  /\ \E s \in {setIsAuthenticated(Take(Now, c), c.answer = "yes")} :
       \E t \in {IF c.then = "initial" THEN [s EXCEPT !.ui.isLoading = FALSE] ELSE s} :
         Commit(Derive(Now, t))
  /\ UNCHANGED localStore

\* Fault: the interval is not cleared when the panel becomes authenticated.
PollTickNeverCleared ==
  /\ ~ui.isLoading
  /\ Commit(checkAuth(Now, "poll"))
  /\ UNCHANGED localStore

\* The 2 s interval exists while not authenticated and not loading.
PollTick ==
  /\ ~ui.isAuthenticated /\ ~ui.isLoading
  /\ Commit(checkAuth(Now, "poll"))
  /\ UNCHANGED localStore

\* The runtime.onMessage listener for AUTH_STATE_CHANGED, which the service
\* worker broadcasts after a change of the session it has noticed.
AuthStateChanged ==
  /\ env.changed
  /\ Commit(checkAuth([Now EXCEPT !.env.changed = FALSE], "listener"))
  /\ UNCHANGED localStore

\* The user signs in to, or out of, the web application.
SessionBecomes(v) ==
  /\ env.loggedIn # v
  /\ Commit([Now EXCEPT !.env.loggedIn = v, !.env.changed = TRUE])
  /\ UNCHANGED localStore

\* ---- page data and the document list
\* useDocuments' fetchDocuments after its await.
FetchDocumentsSettles(c, ok) ==
  /\ Awaited(c, "FETCH_DOCUMENTS")
  /\ Commit([Take(Now, c) EXCEPT !.ui.documents = IF ok THEN <<"U", "V">> ELSE <<>>])
  /\ UNCHANGED localStore

\* fetchPageData after GET_ACTIVE_TAB: url is the active tab's, "" when there
\* is no tab to name.
GetActiveTabSettles(c, url) ==
  /\ Awaited(c, "GET_ACTIVE_TAB")
  /\ Commit(IF url = ""
            THEN Put([Take(Now, c) EXCEPT !.ui.pageDataLoading = FALSE],
                     "pageData", "", c)
            ELSE Send(Take(Now, c),
                      [Call("EXTRACT_PAGE_DATA", url, "fetchPageData")
                         EXCEPT !.old = c.old]))
  /\ UNCHANGED localStore

\* fetchPageData after EXTRACT_PAGE_DATA: the page data, or the fallback made
\* of the tab's URL when that is an http(s) one, or nothing.
ExtractPageDataSettles(c, ok) ==
  /\ Awaited(c, "EXTRACT_PAGE_DATA")
  /\ ok => c.arg = ProductPage
  /\ Commit(Put([Take(Now, c) EXCEPT !.ui.pageDataLoading = FALSE], "pageData",
                IF c.arg = ProductPage THEN c.arg ELSE "", c))
  /\ UNCHANGED localStore

\* ---- extraction
handleExtract(hasPermission) ==
  /\ Shown /\ ui.appState = "idle" /\ ui.documents # <<>>
  /\ ui.pageData # "" /\ ~ui.pageDataLoading /\ ui.selectedDocumentUuid # ""
  /\ Commit(IF hasPermission THEN doExtract(Now)
            ELSE [Now EXCEPT !.ui.appState = "permission-needed"])
  /\ UNCHANGED localStore

\* doExtract after its await: status is 200 for an EXTRACT_RESULT, else the
\* status of the ERROR that sendMessage threw.
ExtractProductSettles(c, status) ==
  /\ Awaited(c, "EXTRACT_PRODUCT")
  /\ Commit(IF status = 200
            THEN [Put(Take(Now, c), "extractedData", "data", c)
                    EXCEPT !.ui.appState = "preview"]
            ELSE LET s == [Put(Take(Now, c), "errorMessage", "failed", c)
                             EXCEPT !.ui.appState = "error"]
                 IN  IF status = 401 THEN checkAuth(s, "doExtract") ELSE s)
  /\ UNCHANGED localStore

\* handleGrantThisSite / handleGrantAllSites after the permission request.
handleGrant(granted) ==
  /\ Shown /\ ui.appState = "permission-needed" /\ ui.pageData # ""
  /\ Commit(IF granted
            THEN fetchPageData([Now EXCEPT !.ui.appState = "extracting",
                                           !.ui.pendingExtractAfterGrant = TRUE])
            ELSE [Now EXCEPT !.ui.errorMessage = "permissionDenied",
                             !.ui.appState = "error"])
  /\ UNCHANGED localStore

handleAddAnother ==
  /\ Shown /\ \/ ui.appState = "preview" /\ ui.extractedData # ""
              \/ ui.appState = "success" /\ ui.successInfo # ""
  /\ Commit(fetchPageData([Now EXCEPT !.ui.extractedData = "", !.ui.successInfo = "",
                                      !.ui.errorMessage = "", !.ui.appState = "idle",
                                      !.ui.prior = @ \ {"extractedData", "successInfo",
                                                        "errorMessage"}]))
  /\ UNCHANGED localStore

handleTryAgain ==
  /\ Shown /\ ui.appState = "error"
  /\ Commit(LET s == [Now EXCEPT !.ui.errorMessage = "",
                                 !.ui.prior = @ \ {"errorMessage"}]
            IN  IF ui.extractedData # "" THEN [s EXCEPT !.ui.appState = "preview"]
                ELSE fetchPageData([s EXCEPT !.ui.appState = "idle"]))
  /\ UNCHANGED localStore

\* ---- document and tab selection
\* storage.local.set(items) merges items into the store and storage.local.remove
\* (keys) drops keys from it; calls issued in one handler are carried out in the
\* order issued.
\* handleDocumentChange(uuid): the selection is set and stored and the tab
\* forgotten, or both are forgotten when nothing is selected; the document is
\* fetched, and in preview a new extraction is made to wait for it.
handleDocumentChange(uuid) ==
  /\ SelectorShown
  /\ localStore' =
       IF uuid # ""
       THEN LET set == [lastDocumentUuid |-> uuid] @@ localStore
            IN  [k \in DOMAIN set \ {"lastTabId"} |-> set[k]]
       ELSE [k \in DOMAIN localStore \ {"lastDocumentUuid", "lastTabId"} |-> localStore[k]]
  /\ LET wasInPreview == ui.appState = "preview" /\ uuid # ""
         s == [Now EXCEPT !.ui.selectedDocumentUuid = uuid, !.ui.selectedTabId = "",
                          !.ui.selectedDocument = "", !.ui.manual = uuid,
                          !.ui.prior = @ \ {"selectedDocumentUuid", "selectedTabId",
                                            "selectedDocument"},
                          !.ui.appState = IF wasInPreview THEN "extracting" ELSE @,
                          !.ui.pendingReExtract = IF wasInPreview THEN TRUE ELSE @]
     IN  Commit(IF uuid = "" THEN s
                ELSE Send(s, Call("FETCH_DOCUMENT", uuid,
                                  IF wasInPreview THEN "changeInPreview" ELSE "change")))

\* The continuations of the three FETCH_DOCUMENT calls: of handleDocumentChange,
\* of the restoration and of the refresh after a row was added.
FetchDocumentSettles(c, ok) ==
  /\ Awaited(c, "FETCH_DOCUMENT")
  /\ LET s == Take(Now, c)
         d == Put(s, "selectedDocument", c.arg, c)
         tabs == TabsOf(c.arg)
     IN  Commit(IF ok
                THEN IF c.then = "refresh" THEN d
                     ELSE IF c.then = "restore" /\ c.tab # ""
                             /\ \E i \in DOMAIN tabs : tabs[i] = c.tab
                     THEN Put(d, "selectedTabId", c.tab, c)
                     ELSE Put(d, "selectedTabId", tabs[1], c)
                ELSE IF c.then = "changeInPreview"
                     THEN [s EXCEPT !.ui.pendingReExtract = FALSE, !.ui.appState = "idle"]
                     ELSE s)
  /\ UNCHANGED localStore

\* handleTabChange(tabId): the tab selection is set and stored, or forgotten
\* when null.
handleTabChange(tabId) ==
  /\ SelectorShown
  /\ tabId # "" => /\ ui.selectedDocument # ""
                   /\ \E i \in DOMAIN TabsOf(ui.selectedDocument) :
                        TabsOf(ui.selectedDocument)[i] = tabId
  /\ localStore' =
       IF tabId # ""
       THEN [lastTabId |-> tabId] @@ localStore
       ELSE [k \in DOMAIN localStore \ {"lastTabId"} |-> localStore[k]]
  /\ Commit([Now EXCEPT !.ui.selectedTabId = tabId,
                        !.ui.prior = @ \ {"selectedTabId"}])

\* The restoration's storage.local.get is carried out by the browser...
StorageGetHandled(c) ==
  /\ Awaited(c, "storage.get") /\ c.answer = "none"
  /\ Commit(Send(Take(Now, c),
                 [c EXCEPT !.answer = "read",
                           !.arg = IF "lastDocumentUuid" \in DOMAIN localStore
                                   THEN localStore.lastDocumentUuid ELSE "",
                           !.tab = IF "lastTabId" \in DOMAIN localStore
                                   THEN localStore.lastTabId ELSE ""]))
  /\ UNCHANGED localStore

\* ... and its then: the documents it closed over are the list loaded, which
\* names every document.
StorageGetSettles(c) ==
  /\ Awaited(c, "storage.get") /\ c.answer = "read"
  /\ Commit(IF c.arg # "" /\ c.arg \in Docs
            THEN Send(Put(Take(Now, c), "selectedDocumentUuid", c.arg, c),
                      [Call("FETCH_DOCUMENT", c.arg, "restore")
                         EXCEPT !.tab = c.tab, !.old = c.old])
            ELSE Take(Now, c))
  /\ UNCHANGED localStore

\* handleAddToEstimate of the side panel, up to its await.
addToEstimate ==
  /\ Shown /\ ui.appState = "preview" /\ ui.extractedData # ""
  /\ ui.selectedDocumentUuid # "" /\ ui.selectedTabId # ""
  /\ Commit(Send([Now EXCEPT !.ui.appState = "saving", !.ui.errorMessage = ""],
                 [Call("ADD_ROW_TO_DOCUMENT", ui.selectedDocumentUuid, "handleAddToEstimate")
                    EXCEPT !.tab = ui.selectedTabId]))
  /\ UNCHANGED localStore

\* ... and after it: success, with the usage and the document fetched anew, or
\* the error screen.
AddRowSettles(c, ok) ==
  /\ Awaited(c, "ADD_ROW_TO_DOCUMENT")
  /\ Commit(IF ok
            THEN Send(Send([Put(Take(Now, c), "successInfo", c.arg, c)
                              EXCEPT !.ui.appState = "success"],
                           [Call("FETCH_USAGE", "", "refresh") EXCEPT !.old = c.old]),
                      [Call("FETCH_DOCUMENT", c.arg, "refresh") EXCEPT !.old = c.old])
            ELSE [Put(Take(Now, c), "errorMessage", "addFailed", c)
                    EXCEPT !.ui.appState = "error"])
  /\ UNCHANGED localStore

\* ---- AuthGate
\* handleSignIn up to its await: the window recorded is focused, or a window is
\* asked for; id is the one the browser will give it.
handleSignIn ==
  /\ ~ui.isLoading /\ ~ui.isAuthenticated /\ ~ui.popupOpen
  /\ env.created < MaxPopups
  /\ Commit(IF ui.popupWindowId # 0 THEN Now
            ELSE Send([Now EXCEPT !.env.created = @ + 1],
                      [Call("windows.create", "", "handleSignIn")
                         EXCEPT !.id = env.created + 1]))
  /\ UNCHANGED localStore

\* ... and after it: the window exists and its id is recorded.
WindowCreated(c) ==
  /\ Awaited(c, "windows.create")
  /\ Commit([Take(Now, c) EXCEPT !.env.windows = @ \cup {c.id},
                                 !.ui.popupWindowId = c.id, !.ui.popupOpen = TRUE])
  /\ UNCHANGED localStore

\* The user closes window w; handleRemoved listens while a popup is recorded.
WindowRemoved(w) ==
  /\ w \in env.windows
  /\ LET s == [Now EXCEPT !.env.windows = @ \ {w}]
     IN  Commit(IF ui.popupOpen /\ ui.popupWindowId # 0 /\ w = ui.popupWindowId
                THEN checkAuth([s EXCEPT !.ui.popupWindowId = 0, !.ui.popupOpen = FALSE],
                               "handleRemoved")
                ELSE s)
  /\ UNCHANGED localStore

\* handleTabUpdated: the recorded popup shows /estimates and is closed.
PopupReachesEstimates ==
  /\ ui.popupOpen /\ ui.popupWindowId \in env.windows
  /\ Commit(checkAuth([Now EXCEPT !.env.windows = @ \ {ui.popupWindowId},
                                  !.ui.popupWindowId = 0, !.ui.popupOpen = FALSE],
                      "handleTabUpdated"))
  /\ UNCHANGED localStore

\* ------------------------------------------------- side panel: storage.local
\* The handlers that only write storage.local.
handleOnboardingComplete ==
  /\ localStore' = [onboardingComplete |-> TRUE] @@ localStore
  /\ UNCHANGED <<broker, badges, ui, calls, env>>

\* Fault: the language is stored under the key locale of LocalStorageSchema.
handleLanguageChangeAsLocale(code) ==
  /\ localStore' = [locale |-> code] @@ localStore
  /\ UNCHANGED <<broker, badges, ui, calls, env>>

\* The header's language menu stores the language chosen.
handleLanguageChange(code) ==
  /\ localStore' = [language |-> code] @@ localStore
  /\ UNCHANGED <<broker, badges, ui, calls, env>>

\* handleAddToEstimate, once request r was answered with a successful
\* ADD_ROW_RESULT: the document and the tab the row went to are remembered.
handleAddToEstimate(r, tabId) ==
  /\ req[r].pc = "done"
  /\ resp[r] = <<[type |-> "ADD_ROW_RESULT", success |-> TRUE]>>
  /\ localStore' = [lastDocumentUuid |-> req[r].documentUuid, lastTabId |-> tabId]
                     @@ localStore
  /\ UNCHANGED <<broker, badges, ui, calls, env>>

\* --------------------------------------------------------- specifications
\* The state after defineBackground has run: the listeners are registered and the
\* CSRF pre-fetch waits for its first cookie read.  The cookie jar and the
\* session storage hold what earlier runs of the service worker left there.
InitWorker ==
  /\ req = [r \in Procs |-> IF r = Prefetch
                            THEN [IdleReq EXCEPT !.type = "PREFETCH", !.pc = "csrf_read1"]
                            ELSE IdleReq]
  /\ resp = [r \in Procs |-> <<>>]
  /\ sessionCookie \in BOOLEAN
  /\ xsrfCookie \in {NoToken, TokenOf(0)}
  /\ epoch = 0
  /\ csrfFetchInFlight = NoFetch
  /\ fetches = [r \in Procs |-> NoFetchYet]
  /\ cachedDocuments = [d \in Docs |-> NoEntry]
  /\ authState \in BOOLEAN
  /\ storageFails = FALSE
  /\ docRows = [d \in Docs |-> 0]
  /\ events = <<>>
  /\ pendingOps = [xsrf |-> 0, auth |-> 0]
  /\ broadcasts = 0
  /\ appHostname \in AppHostnames
  /\ guardOut = "none"
  /\ tab = [open |-> TRUE, page |-> NewTabPage, badge |-> "", fresh |-> FALSE]
  /\ runs = [n \in Runs |-> IdleRun]

\* ... and the side panel was opened for the first time, with no cached auth
\* state: its initial check is awaited.
InitBroker ==
  /\ InitWorker
  /\ localStore = <<>>
  /\ ui = Mounted
  /\ calls = SetToBag({[Call("CHECK_AUTH", "", "initial") EXCEPT !.latest = TRUE]})
  /\ env = [loggedIn |-> FALSE, changed |-> FALSE, windows |-> {}, created |-> 0]

EnsureCsrf(r) == CsrfRead1(r) \/ CsrfSess(r) \/ CsrfAwait(r) \/ CsrfRead2(r)

SessionEvents == {CookieEvent("SESSION", appHostname, removed) : removed \in BOOLEAN}

Watcher == OnCookieChanged \/ ApplyXsrfRemove \/ ApplyAuthRemove \/ BroadcastSettles

\* The CSRF token manager under concurrent row additions, beside the pre-fetch.
InitCsrf ==
  /\ InitBroker /\ guardIn = Unparseable
  /\ sessionCookie /\ ~authState
  /\ appHostname = <<"app", ".", "rerum", ".", "studio">>

NextCsrf ==
  \/ \E r \in Slots : OnMessage(r, Message("ADD_ROW_TO_DOCUMENT", "U", Unparseable, FALSE))
  \/ \E r \in Procs : EnsureCsrf(r)
  \/ \E f \in Procs, outcome \in {"token", "notoken", "failed"} : CsrfFetchSettle(f, outcome)
  \/ \E r \in Slots : PostSess(r)
  \/ \E r \in Slots, o \in {Outcome(200, "none"), Outcome(401, "none")} : PostResponse(r, o)
  \/ \E r \in Slots : InvalRead(r) \/ Release(r)
  \/ OnCookieChanged

SpecCsrf == InitCsrf /\ [][NextCsrf]_vars

\* Direct calls of apiPut, row additions and GET requests, one at a time beside
\* the pre-fetch, with and without a response body.
NextPut ==
  \/ (\A s \in Slots : req[s].pc = "idle") /\ \E r \in Slots : apiPut(r)
  \/ (\A s \in Slots : req[s].pc = "idle")
       /\ \E r \in Slots, m \in {Message("ADD_ROW_TO_DOCUMENT", "U", Unparseable, FALSE)}
                                   \cup GetMessages : OnMessage(r, m)
  \/ \E r \in Procs : EnsureCsrf(r)
  \/ \E f \in Procs, outcome \in {"token", "notoken", "failed"} : CsrfFetchSettle(f, outcome)
  \/ \E r \in Slots : GetSess(r) \/ PostSess(r) \/ PutSess(r)
  \/ \E r \in Slots, o \in {Outcome(200, "none"), Outcome(204, "none"), Outcome(500, "none"),
                             Outcome(0, "none")} :
        GetResponse(r, o) \/ PostResponse(r, o) \/ PutResponse(r, o)
  \/ \E r \in Slots : InvalRead(r) \/ Release(r)

SpecPut == InitCsrf /\ [][NextPut]_vars

AllIdle == \A r \in Slots : req[r].pc = "idle"

\* Row additions, one at a time, beside the pre-fetch, while the SESSION cookie
\* changes and the cookie watcher reacts.
NextSession ==
  \/ AllIdle /\ \E r \in Slots :
        OnMessage(r, Message("ADD_ROW_TO_DOCUMENT", "U", Unparseable, FALSE))
  \/ \E r \in Procs : EnsureCsrf(r)
  \/ \E f \in Procs, outcome \in {"token", "notoken", "failed"} : CsrfFetchSettle(f, outcome)
  \/ \E r \in Slots : PostSess(r)
  \/ \E r \in Slots, o \in {Outcome(200, "none"), Outcome(401, "none")} : PostResponse(r, o)
  \/ \E r \in Slots : InvalRead(r) \/ Release(r)
  \/ \E ev \in SessionEvents : CookieChanged(ev)
  \/ Watcher

SpecSession == InitCsrf /\ [][NextSession]_vars

\* No request is in progress and the watcher has nothing left to do.
Quiescent ==
  /\ AllIdle
  /\ events = <<>> /\ pendingOps = [xsrf |-> 0, auth |-> 0] /\ broadcasts = 0

\* The pages met by the broker specifications: no result, and objects with a
\* product URL, a javascript: URL and a URL without a host.
SomePages ==
  {NoPage}
    \cup {raw \in RawPages :
            /\ raw.isArray /\ raw.images # <<>> /\ raw.hints.jsonLd = Bool(TRUE)
            /\ raw.url \in {Str(GoodUrl), Str(<<"javascript:", "alert(1)">>),
                             Str(<<"http:", "//">>)}}

Handlers(r) ==
  \/ GetSess(r) \/ PostSess(r)
  \/ CacheRead(r) \/ CacheWrite(r) \/ InvalRead(r) \/ InvalWrite(r)
  \/ LogoutRm1(r) \/ LogoutRm2(r) \/ TabsQuery(r)

Settles(r) ==
  \/ \E o \in HttpOutcomes : GetResponse(r, o) \/ PostResponse(r, o)
  \/ \E result \in {"failed", "empty", "content"} : InjectContent(r, result)
  \/ \E ok \in BOOLEAN, raw \in SomePages : InjectPageData(r, ok, raw)

\* The broker serving one UI request at a time, each arriving once the watcher
\* has settled, beside the startup pre-fetch, on a host whose session storage
\* accepts every write.
InitRouter ==
  /\ InitBroker /\ guardIn = Unparseable
  /\ sessionCookie /\ ~authState
  /\ appHostname = <<"app", ".", "rerum", ".", "studio">>

Arrive == Quiescent /\ \E r \in Slots, m \in AllMessages : OnMessage(r, m)

Progress ==
  \/ \E r \in Procs : EnsureCsrf(r)
  \/ \E f \in Procs, outcome \in {"token", "notoken", "failed"} : CsrfFetchSettle(f, outcome)
  \/ \E r \in Slots : Handlers(r) \/ Settles(r) \/ Release(r)
  \/ Watcher

Next == Arrive \/ Progress

Spec == InitRouter /\ [][Next]_vars

\* The same broker with every request about one document, where every call a
\* handler awaits settles and every continuation that can run does.
OneDocMessages == {m \in AllMessages : m.documentUuid # "V"}

ArriveOneDoc == Quiescent /\ \E r \in Slots, m \in OneDocMessages : OnMessage(r, m)

NextFair == ArriveOneDoc \/ Progress

SpecFair == InitRouter /\ [][NextFair]_vars /\ WF_vars(Progress)

\* Concurrent FETCH_DOCUMENT and ADD_ROW_TO_DOCUMENT requests on a host whose
\* session storage may reject writes; the token cookie exists throughout.
InitCache == InitRouter /\ xsrfCookie = TokenOf(0)

CacheMessages ==
  {Message(t, d, Unparseable, FALSE) : t \in {"FETCH_DOCUMENT", "ADD_ROW_TO_DOCUMENT"},
                                       d \in Docs}

NextCache ==
  \/ \E r \in Slots, m \in CacheMessages : OnMessage(r, m)
  \/ \E r \in Procs : CsrfRead1(r)
  \/ \E r \in Slots : GetSess(r) \/ PostSess(r)
  \/ \E r \in Slots, o \in {Outcome(200, "none"), Outcome(500, "none")} :
        GetResponse(r, o) \/ PostResponse(r, o)
  \/ \E r \in Slots : CacheRead(r) \/ CacheWrite(r) \/ InvalRead(r) \/ InvalWrite(r)
  \/ \E r \in Slots : Release(r)
  \/ StorageFlip

SpecCache == InitCache /\ [][NextCache]_vars

\* The cookie watcher under arbitrary cookie-change events.
AnyEvents ==
  {CookieEvent(name, domain, removed) :
     name \in {"SESSION", "XSRF-TOKEN", "JSESSIONID"}, domain \in CookieDomains,
     removed \in BOOLEAN}

NextWatch ==
  \/ \E ev \in AnyEvents : CookieChanged(ev)
  \/ Watcher

InitWatch == InitBroker /\ guardIn = Unparseable

SpecWatch == InitWatch /\ [][NextWatch]_vars

\* The cookie watcher under changes of the SESSION and XSRF-TOKEN cookies, where
\* the event loop delivers every queued event and the host carries out every
\* removal it was asked for.
SomeEvents ==
  {CookieEvent(name, domain, removed) :
     name \in {"SESSION", "XSRF-TOKEN"},
     domain \in {appHostname, <<".", "rerum", ".", "studio">>, <<"evil", ".", "com">>},
     removed \in BOOLEAN}

NextWatchFair ==
  \/ \E ev \in SomeEvents : CookieChanged(ev)
  \/ Watcher

SpecWatchFair ==
  /\ InitWatch /\ [][NextWatchFair]_vars
  /\ WF_vars(OnCookieChanged) /\ WF_vars(ApplyXsrfRemove) /\ WF_vars(ApplyAuthRemove)
  /\ WF_vars(BroadcastSettles)

\* EXTRACT_PAGE_DATA requests, one at a time, over everything the injected routine
\* may hand back.
NextPage ==
  \/ AllIdle /\ \E r \in Slots : OnMessage(r, Message("EXTRACT_PAGE_DATA", "", Unparseable, TRUE))
  \/ \E r \in Slots, ok \in BOOLEAN, raw \in RawPages : InjectPageData(r, ok, raw)
  \/ \E r \in Slots : Release(r)

SpecPage == InitRouter /\ [][NextPage]_vars

\* The badge updater run for one tab, a run at a time, while the tab loads pages
\* between the runs and may be closed at any moment.
UpdateBadgeForTab(n) ==
  TabsGet(n) \/ ExecuteScript(n) \/ SetBadgeText(n) \/ SetBadgeBackgroundColor(n)

NextBadge ==
  \/ NoRunInProgress /\ \E n \in Runs : TabEvent(n)
  \/ NoRunInProgress /\ \E page \in TabPages, keeps \in BOOLEAN : Navigate(page, keeps)
  \/ \E n \in Runs : UpdateBadgeForTab(n) \/ RunEnds(n)
  \/ CloseTab

SpecBadge == InitRouter /\ [][NextBadge]_vars

\* The badge updater with runs that overlap: events fire and the tab loads pages
\* while earlier runs are still awaiting.
NextOverlap ==
  \/ \E n \in Runs : TabEvent(n) \/ UpdateBadgeForTab(n) \/ RunEnds(n)
  \/ \E page \in TabPages, keeps \in BOOLEAN : Navigate(page, keeps)

SpecOverlap == InitRouter /\ [][NextOverlap]_vars

\* isValidProductUrl applied to one URL.
InitUrl ==
  /\ InitBroker /\ guardIn \in UrlInputs
  /\ sessionCookie /\ ~authState /\ xsrfCookie = NoToken
  /\ appHostname = <<"app", ".", "rerum", ".", "studio">>

ApplyGuard ==
  /\ guardOut = "none"
  /\ guardOut' = IF isValidProductUrl(guardIn) THEN "accepted" ELSE "rejected"
  /\ UNCHANGED <<req, resp, jar, csrf, storage, docRows, watcher, appHostname, guardIn,
                 badges, panel>>

NextUrl == ApplyGuard

SpecUrl == InitUrl /\ [][NextUrl]_vars

\* The side panel's handlers that write storage.local, beside document fetches
\* and row additions that succeed, served one at a time while the SESSION cookie
\* is removed; the startup pre-fetch has not run yet.
NextPanel ==
  \/ \E uuid \in {"U", ""} : handleDocumentChange(uuid)
  \/ \E c \in Awaiting : FetchDocumentSettles(c, TRUE)
  \/ handleTabChange("tab-1")
  \/ handleOnboardingComplete
  \/ handleLanguageChange("pl")
  \/ \E r \in Slots : handleAddToEstimate(r, "tab-1")
  \/ AllIdle /\ \E r \in Slots, m \in CacheMessages : m.documentUuid = "V" /\ OnMessage(r, m)
  \/ \E r \in Slots : EnsureCsrf(r)
  \/ \E f \in Slots : CsrfFetchSettle(f, "token")
  \/ \E r \in Slots : GetSess(r) \/ PostSess(r)
  \/ \E r \in Slots : GetResponse(r, Outcome(200, "none")) \/ PostResponse(r, Outcome(200, "none"))
  \/ \E r \in Slots : CacheRead(r) \/ CacheWrite(r) \/ InvalRead(r) \/ InvalWrite(r)
  \/ \E r \in Slots : Release(r)
  \/ CookieChanged(CookieEvent("SESSION", appHostname, TRUE))
  \/ Watcher

\* The side panel some time after a login: the document list, the page data and
\* the usage have arrived and the restoration found nothing stored.
SignedIn ==
  [Mounted EXCEPT !.isAuthenticated = TRUE, !.isLoading = FALSE, !.appState = "idle",
                  !.documents = <<"U", "V">>, !.pageData = ProductPage,
                  !.usage = "usage", !.hasRestoredSelection = TRUE]

InitPanel ==
  /\ InitWorker /\ guardIn = Unparseable
  /\ sessionCookie /\ authState
  /\ appHostname = <<"app", ".", "rerum", ".", "studio">>
  /\ localStore = <<>>
  /\ ui = SignedIn /\ calls = EmptyBag
  /\ env = [loggedIn |-> TRUE, changed |-> FALSE, windows |-> {}, created |-> 0]

SpecPanel == InitPanel /\ [][NextPanel]_vars

\* The side panel alone, from its mount: the service worker is at rest and its
\* answers are whatever its handlers can return.
InitSidePanel ==
  /\ InitBroker /\ guardIn = Unparseable
  /\ ~sessionCookie /\ xsrfCookie = NoToken /\ ~authState
  /\ appHostname = <<"app", ".", "rerum", ".", "studio">>

\* Signing in and out and the checks of useAuth; what a login fetches stays
\* unanswered.
NextAuth ==
  \/ \E c \in Awaiting : CheckAuthHandled(c) \/ CheckAuthSettles(c)
  \/ PollTick
  \/ AuthStateChanged
  \/ \E v \in BOOLEAN : SessionBecomes(v)

SpecAuth == InitSidePanel /\ [][NextAuth]_vars

\* A signed-in panel in which a document is selected and a product extracted,
\* while the user's session ends and another begins; the panel hears of both
\* through the broadcast.  What a login fetches stays unanswered.
NextSignOut ==
  \/ \E c \in Awaiting : CheckAuthHandled(c) \/ CheckAuthSettles(c)
  \/ AuthStateChanged
  \/ \E v \in BOOLEAN : SessionBecomes(v)
  \/ handleDocumentChange("U")
  \/ handleExtract(TRUE)
  \/ \E c \in Awaiting : ExtractProductSettles(c, 200)

InitSignedIn == InitPanel /\ xsrfCookie = NoToken

SpecSignOut == InitSignedIn /\ [][NextSignOut]_vars

\* A signed-in panel whose user selects a document, extracts, grants or denies
\* the host permission and leaves the result screens.
NextExtract ==
  \/ handleDocumentChange("U")
  \/ \E c \in Awaiting, ok \in BOOLEAN : FetchDocumentSettles(c, ok)
  \/ \E hasPermission \in BOOLEAN : handleExtract(hasPermission)
  \/ \E granted \in BOOLEAN : handleGrant(granted)
  \/ \E c \in Awaiting, url \in TabUrls : GetActiveTabSettles(c, url)
  \/ \E c \in Awaiting, ok \in BOOLEAN : ExtractPageDataSettles(c, ok)
  \/ \E c \in Awaiting, status \in {200, 500} : ExtractProductSettles(c, status)
  \/ handleAddAnother
  \/ handleTryAgain

\* Every call the panel awaits is answered.
SpecExtractFair ==
  /\ InitSignedIn /\ [][NextExtract]_vars
  /\ WF_vars(\E c \in Awaiting, ok \in BOOLEAN : FetchDocumentSettles(c, ok))
  /\ WF_vars(\E c \in Awaiting, url \in TabUrls : GetActiveTabSettles(c, url))
  /\ WF_vars(\E c \in Awaiting, ok \in BOOLEAN : ExtractPageDataSettles(c, ok))
  /\ WF_vars(\E c \in Awaiting, status \in {200, 500} : ExtractProductSettles(c, status))

\* A panel just signed in whose document list is on its way, opened where an
\* earlier use left document U and its second tab stored as the last selection.
InitSelect ==
  /\ InitWorker /\ guardIn = Unparseable
  /\ sessionCookie /\ xsrfCookie = NoToken /\ authState
  /\ appHostname = <<"app", ".", "rerum", ".", "studio">>
  /\ ui = [SignedIn EXCEPT !.documents = <<>>, !.hasRestoredSelection = FALSE]
  /\ calls = SetToBag({Call("FETCH_DOCUMENTS", "", "useDocuments")})
  /\ env = [loggedIn |-> TRUE, changed |-> FALSE, windows |-> {}, created |-> 0]
  /\ localStore = [lastDocumentUuid |-> "U", lastTabId |-> "tab-2"]

\* The list arrives, the last selection is restored, and the user selects
\* documents and tabs, extracts and adds the row.
NextSelect ==
  \/ \E c \in Awaiting : FetchDocumentsSettles(c, TRUE)
  \/ \E c \in Awaiting : StorageGetHandled(c) \/ StorageGetSettles(c)
  \/ \E uuid \in {"U", "V"} : handleDocumentChange(uuid)
  \/ handleTabChange("tab-2")
  \/ \E c \in Awaiting : FetchDocumentSettles(c, TRUE)
  \/ handleExtract(TRUE)
  \/ \E c \in Awaiting : ExtractProductSettles(c, 200)
  \/ addToEstimate
  \/ \E c \in Awaiting : AddRowSettles(c, TRUE)

SpecSelect == InitSelect /\ [][NextSelect]_vars

\* The sign-in screen of AuthGate: the user signs in through the popup, closes
\* it, or clicks Sign in again, while useAuth's checks go on.
NextGate ==
  \/ \E c \in Awaiting : CheckAuthHandled(c) \/ CheckAuthSettles(c)
  \/ AuthStateChanged
  \/ \E v \in BOOLEAN : SessionBecomes(v)
  \/ handleSignIn
  \/ \E c \in Awaiting : WindowCreated(c)
  \/ \E w \in env.windows : WindowRemoved(w)
  \/ PopupReachesEstimates

SpecGate == InitSidePanel /\ [][NextGate]_vars

\* The interval's timer fires while it exists, and while a CHECK_AUTH waits for
\* the service worker or for its continuation, one does not wait forever.
SpecAuthFair ==
  /\ SpecAuth
  /\ WF_vars(PollTick)
  /\ WF_vars(\E c \in Awaiting : CheckAuthHandled(c))
  /\ WF_vars(\E c \in Awaiting : CheckAuthSettles(c))

\* ------------------------------------------------------------------ claims
Awaits(type) == {c \in BagToSet(calls) : c.type = type}
PendingCsrfFetches == {f \in Procs : fetches[f].state = "pending"}

\* C1: callers of ensureCsrfToken that are pending together while no XSRF-TOKEN
\* cookie exists share one GET /csrf call: at no time are two /csrf fetches
\* outstanding.
C1_SingleCsrfFetch == Cardinality(PendingCsrfFetches) <= 1

Answered(r) == req[r].pc = "done"
Response(r) == resp[r][1]

\* C2: every message delivered to the listener is answered by exactly one response,
\* whatever its tag and whatever its handler's outcome: a finished invocation has
\* sent one response, an unfinished one none, and whenever an invocation is in
\* progress it finishes.
C2_ExactlyOneResponse ==
  /\ [](\A r \in Slots : Len(resp[r]) = (IF Answered(r) THEN 1 ELSE 0))
  /\ (\E r \in Slots : req[r].pc \notin {"idle", "done"})
       ~> (\A r \in Slots : req[r].pc \in {"idle", "done"})

\* A handler that threw something other than an ApiError has been answered.
C2_Witness ==
  \E r \in Slots : Answered(r) /\ req[r].type = "FETCH_DOCUMENTS"
                   /\ resp[r] = <<ErrorResponse(0, "Failed to fetch")>>

\* C3: no POST is sent with an X-XSRF-TOKEN value that was minted before the latest
\* SESSION cookie change.
C3_NoStaleCsrfToken ==
  \A r \in Slots : \A i \in 1..Len(req[r].sent) : ~req[r].sent[i].stale

AddRowSucceeded(r) ==
  /\ Answered(r) /\ req[r].type = "ADD_ROW_TO_DOCUMENT"
  /\ resp[r] = <<[type |-> "ADD_ROW_RESULT", success |-> TRUE]>>

\* C4: when requests are served one after the other, an ADD_ROW_TO_DOCUMENT for U
\* that answers success:true leaves no cache entry for U, also where an earlier
\* FETCH_DOCUMENT had populated it.
C4_AddRowInvalidates ==
  \A r \in Slots : AddRowSucceeded(r) => cachedDocuments[req[r].documentUuid] = NoEntry

\* The row add found, and deleted, the entry a FETCH_DOCUMENT had cached.
C4_Witness ==
  \E r \in Slots : AddRowSucceeded(r) /\ req[r].deleted
                   /\ cachedDocuments[req[r].documentUuid] = NoEntry

\* A cache entry fetched before the document's latest row was added.
Stale(d) == cachedDocuments[d] # NoEntry /\ cachedDocuments[d] < docRows[d]

\* C5: once an ADD_ROW_TO_DOCUMENT for U has answered success:true and no request
\* is in progress, the cache holds no entry for U fetched before the row was added.
C5_NoStaleEntry ==
  \A r \in Slots :
    (AddRowSucceeded(r) /\ \A s \in Slots : req[s].pc \in {"idle", "done"})
      => ~Stale(req[r].documentUuid)

\* The handler of r was handed a non-2xx response by the HTTP client.
Non2xx(r) == req[r].got \notin {NoStatus, 200, 204}

\* C6 as stated: every handler handed a non-2xx response answers with a response
\* that contains status and error.
C6_ErrorShapeEverywhere ==
  \A r \in Slots : (Answered(r) /\ Non2xx(r)) => {"status", "error"} \subseteq DOMAIN Response(r)

\* C6: every handler handed a non-2xx response answers with a response that carries
\* that status and an error, except CHECK_AUTH on 401, which answers AUTH_RESULT with
\* isAuthenticated false, and LOGOUT, which answers LOGOUT_RESULT.
C6_ErrorShape ==
  \A r \in Slots : (Answered(r) /\ Non2xx(r)) =>
    /\ Len(resp[r]) = 1
    /\ IF req[r].type = "CHECK_AUTH" /\ req[r].got = 401
       THEN Response(r) = [type |-> "AUTH_RESULT", isAuthenticated |-> FALSE]
       ELSE IF req[r].type = "LOGOUT" THEN Response(r) = [type |-> "LOGOUT_RESULT"]
       ELSE /\ {"status", "error"} \subseteq DOMAIN Response(r)
            /\ Response(r).status = req[r].got

\* A row add refused with 403 was answered with that status and an error.
C6_Witness ==
  \E r \in Slots : /\ Answered(r) /\ req[r].type = "ADD_ROW_TO_DOCUMENT" /\ req[r].got = 403
                   /\ Response(r).status = 403 /\ "error" \in DOMAIN Response(r)

\* C7: an EXTRACT_PRODUCT whose productUrl fails the guard is answered with the 400
\* error without a page-script injection, a /csrf call or an API request; one whose
\* productUrl passes is not turned away, sends nothing but POST /estimate/dynamic,
\* and is answered EXTRACT_RESULT only after that POST.
C7_GuardBeforeOutbound ==
  \A r \in Slots : req[r].type = "EXTRACT_PRODUCT" =>
    IF ~isValidProductUrl(req[r].productUrl)
    THEN /\ ~req[r].injected /\ req[r].csrfCalls = 0 /\ req[r].sent = <<>>
         /\ resp[r] = <<ErrorResponse(400, "Invalid product URL")>>
    ELSE /\ \A i \in 1..Len(req[r].sent) :
              req[r].sent[i].method = "POST" /\ req[r].sent[i].path = "/estimate/dynamic"
         /\ resp[r] # <<ErrorResponse(400, "Invalid product URL")>>
         /\ (Answered(r) /\ Response(r).type = "EXTRACT_RESULT") => Len(req[r].sent) = 1

\* A request naming a tab was turned away by the guard.
C7_Witness ==
  \E r \in Slots : /\ req[r].type = "EXTRACT_PRODUCT" /\ req[r].tabId
                   /\ ~isValidProductUrl(req[r].productUrl) /\ Answered(r)

\* The address an IPv4 host denotes, whatever notation the URL used.
IsLoopback(h) ==
  \/ h.kind = "name" /\ h.labels = <<"localhost">>
  \/ h.kind = "ipv4" /\ Octets(h.parts)[1] = 127
  \/ h.kind = "ipv6" /\ h.text = "::1"

IsPrivate(h) ==
  /\ h.kind = "ipv4"
  /\ LET o == Octets(h.parts) IN
     \/ o[1] = 10
     \/ o[1] = 172 /\ o[2] \in 16..31
     \/ o[1] = 192 /\ o[2] = 168

\* C8: the guard accepts a URL exactly when it is an http or https URL whose host
\* is neither loopback (localhost, 127.x, ::1) nor in a private IPv4 range (10.x,
\* 172.16-31.x, 192.168.x).
C8_GuardDecision ==
  guardOut # "none" =>
    (guardOut = "accepted" <=>
       /\ guardIn.parses /\ guardIn.scheme \in {"http", "https"}
       /\ ~IsLoopback(guardIn.host) /\ ~IsPrivate(guardIn.host))

\* The cookie is named SESSION and its domain, a leading dot stripped, is the
\* target host or a parent domain of it, or is empty while the target is localhost.
IsTargetSession(c) ==
  /\ c.name = "SESSION"
  /\ LET d == IF c.domain # <<>> /\ Head(c.domain) = "." THEN Tail(c.domain) ELSE c.domain
     IN  IF d = <<>> THEN appHostname = <<"localhost">>
         ELSE \/ d = appHostname
              \/ \E k \in 1..Len(appHostname) :
                   appHostname[k] = "." /\ SubSeq(appHostname, k + 1, Len(appHostname)) = d

SessionRemovalQueued ==
  \E i \in 1..Len(events) : IsTargetSession(events[i]) /\ events[i].removed

\* C9: a SESSION cookie removal event for the target domain leads to the XSRF-TOKEN
\* cookie being cleared and to the authState snapshot being removed.
C9_RemovalClears ==
  /\ SessionRemovalQueued ~> (xsrfCookie = NoToken)
  /\ SessionRemovalQueued ~> ~authState

\* The watcher has handled a removal: both removals are requested while the token
\* cookie and the snapshot still exist.
C9_Witness ==
  /\ pendingOps.xsrf > 0 /\ pendingOps.auth > 0
  /\ xsrfCookie # NoToken /\ authState /\ ~sessionCookie

EventHandled == events # <<>> /\ events' = Tail(events)

\* C10: handling a cookie-change event for the target's SESSION cookie requests the
\* removal of XSRF-TOKEN, broadcasts AUTH_STATE_CHANGED, and requests the removal of
\* authState exactly when the change is a removal; handling any other event removes
\* no cookie, changes no storage and broadcasts nothing.
C10_WatcherEffect ==
  [][EventHandled =>
       IF IsTargetSession(Head(events))
       THEN /\ pendingOps'.xsrf = pendingOps.xsrf + 1
            /\ broadcasts' = broadcasts + 1
            /\ pendingOps'.auth = pendingOps.auth + (IF Head(events).removed THEN 1 ELSE 0)
       ELSE UNCHANGED <<jar, storage, pendingOps, broadcasts>>]_vars

\* A SESSION cookie set for the target was handled: the token removal is requested,
\* the broadcast is out and the snapshot is left alone.
C10_Witness ==
  /\ events = <<>> /\ epoch = 1 /\ sessionCookie
  /\ pendingOps = [xsrf |-> 1, auth |-> 0] /\ broadcasts = 1

\* The apiPost call of the row add r resolved.
PostSucceeded(r) == req[r].got \in {200, 204}

\* C11: an answered ADD_ROW_TO_DOCUMENT carries success:true exactly when its POST
\* succeeded; when its API call threw an ApiError (a non-2xx response, or status 0
\* for a token that could not be obtained) the answer is ADD_ROW_RESULT with
\* success:false and that error's message, status and errorCode, where it has one;
\* the generic ERROR answers nothing but an exception that is no ApiError.
C11_AddRowAnswer ==
  \A r \in Slots : (Answered(r) /\ req[r].type = "ADD_ROW_TO_DOCUMENT") =>
    LET e == req[r].err
        failure == [type |-> "ADD_ROW_RESULT", success |-> FALSE, error |-> e.message,
                    status |-> e.status]
    IN  /\ Len(resp[r]) = 1
        /\ (Response(r) = [type |-> "ADD_ROW_RESULT", success |-> TRUE]) <=> PostSucceeded(r)
        /\ PostSucceeded(r) => e = NoError
        /\ e.kind = "ApiError" =>
              /\ Response(r) \in {failure, [f \in DOMAIN failure \cup {"errorCode"} |->
                                              IF f = "errorCode" THEN e.errorCode ELSE failure[f]]}
              /\ ("errorCode" \in DOMAIN Response(r)) <=> (e.errorCode # "none")
        /\ Response(r).type = "ERROR" => e.kind = "Error"
        /\ e.kind = "Error" => Response(r) = ErrorResponse(0, e.message)

\* A row add whose token could not be obtained was answered with status 0.
C11_Witness ==
  \E r \in Slots : /\ Answered(r) /\ req[r].type = "ADD_ROW_TO_DOCUMENT"
                   /\ req[r].err = ApiError(0, "Could not obtain CSRF token", "none")
                   /\ Response(r).type = "ADD_ROW_RESULT" /\ Response(r).status = 0

NotAuthenticated == [type |-> "AUTH_RESULT", isAuthenticated |-> FALSE]
Authenticated == [type |-> "AUTH_RESULT", isAuthenticated |-> TRUE, user |-> "user"]

\* C12 as stated: CHECK_AUTH answers isAuthenticated:false on a 401 and
\* isAuthenticated:true with the user on every 2xx; every other failure status is
\* answered ERROR with that status.
C12_CheckAuthEvery2xx ==
  \A r \in Slots : (Answered(r) /\ req[r].type = "CHECK_AUTH" /\ req[r].got # NoStatus) =>
    IF req[r].got = 401 THEN Response(r) = NotAuthenticated
    ELSE IF req[r].got \in {200, 204} THEN Response(r) = Authenticated
    ELSE Response(r).type = "ERROR" /\ Response(r).status = req[r].got

\* C12: CHECK_AUTH answers isAuthenticated:false on a 401 and on nothing else; it
\* answers isAuthenticated:true with the user on a 2xx that carries a body, and
\* ERROR with status 0 on a 2xx without one (204) and on a network failure; every
\* other failure status is answered ERROR with that status.
C12_CheckAuthAnswer ==
  \A r \in Slots : (Answered(r) /\ req[r].type = "CHECK_AUTH") =>
    /\ Len(resp[r]) = 1
    /\ IF req[r].got = 401 THEN Response(r) = NotAuthenticated
       ELSE IF req[r].got = 200 THEN Response(r) = Authenticated
       ELSE IF req[r].got \in {204, NoStatus}
            THEN Response(r).type = "ERROR" /\ Response(r).status = 0
       ELSE Response(r).type = "ERROR" /\ Response(r).status = req[r].got

\* A CHECK_AUTH that met a server error was answered ERROR with status 500.
C12_Witness ==
  \E r \in Slots : /\ Answered(r) /\ req[r].type = "CHECK_AUTH" /\ req[r].got = 500
                   /\ Response(r).type = "ERROR" /\ Response(r).status = 500

\* The nine tags of the ExtensionMessage union: the handler of each, the API path
\* that handler calls (none for the two that call no API) and its result type.
Route(handler, paths, result) == [handler |-> handler, paths |-> paths, result |-> result]

RouteOf(tag) ==
  CASE tag = "CHECK_AUTH" -> Route("handleCheckAuth", {"/auth/me"}, "AUTH_RESULT")
    [] tag = "FETCH_DOCUMENTS" -> Route("handleFetchDocuments", {"/estimates"}, "DOCUMENTS_RESULT")
    [] tag = "FETCH_DOCUMENT" -> Route("handleFetchDocument", {"/document"}, "DOCUMENT_RESULT")
    [] tag = "EXTRACT_PRODUCT" ->
         Route("handleExtractProduct", {"/estimate/dynamic"}, "EXTRACT_RESULT")
    [] tag = "ADD_ROW_TO_DOCUMENT" -> Route("handleAddRowToDocument", {"/rows"}, "ADD_ROW_RESULT")
    [] tag = "EXTRACT_PAGE_DATA" -> Route("handleExtractPageData", {}, "PAGE_DATA_RESULT")
    [] tag = "FETCH_USAGE" -> Route("handleFetchUsage", {"/subscription/usage"}, "USAGE_RESULT")
    [] tag = "GET_ACTIVE_TAB" -> Route("handleGetActiveTab", {}, "ACTIVE_TAB_RESULT")
    [] tag = "LOGOUT" -> Route("handleLogout", {"/auth/logout"}, "LOGOUT_RESULT")

UnionTags ==
  { "CHECK_AUTH", "FETCH_DOCUMENTS", "FETCH_DOCUMENT", "EXTRACT_PRODUCT", "ADD_ROW_TO_DOCUMENT",
    "EXTRACT_PAGE_DATA", "FETCH_USAGE", "GET_ACTIVE_TAB", "LOGOUT" }

\* C13: a message with a tag of the union is handed to exactly one handler, the
\* handler of that tag: no other handler's API call is made for it and its answer
\* is that handler's result or ERROR; a message with any other tag (the broadcast
\* tag aside) calls no handler and is answered at once with the generic ERROR of
\* status 0.
C13_ExhaustiveDispatch ==
  \A r \in Slots :
    IF req[r].type \in UnionTags
    THEN LET route == RouteOf(req[r].type) IN
         /\ req[r].handlers = <<route.handler>>
         /\ \A i \in 1..Len(req[r].sent) : req[r].sent[i].path \in route.paths
         /\ Answered(r) => (Len(resp[r]) = 1 /\ Response(r).type \in {route.result, "ERROR"})
    ELSE IF req[r].type \in {"NONE", "AUTH_STATE_CHANGED"} THEN TRUE
    ELSE /\ req[r].handlers = <<>> /\ req[r].sent = <<>>
         /\ Answered(r) /\ Len(resp[r]) = 1
         /\ Response(r).type = "ERROR" /\ Response(r).status = 0
         /\ "error" \in DOMAIN Response(r)

\* A message with a tag outside the union was answered with the generic ERROR.
C13_Witness ==
  \E r \in Slots : /\ req[r].type = "BOGUS" /\ req[r].handlers = <<>>
                   /\ resp[r] = <<ErrorResponse(0, "Unknown message type")>>

\* The message of invocation r has just been delivered to the listener.
Delivered(r) == req[r].pc = "idle" /\ req'[r].pc # "idle"

\* C14: an AUTH_STATE_CHANGED message delivered to the listener is acknowledged in
\* the step that delivers it, with one LOGOUT_RESULT, without calling a handler,
\* making a network call or injecting a script, and without a change to the cookies,
\* the session storage, the cache or the CSRF in-flight handle.
C14_BroadcastAck ==
  [][\A r \in Slots :
       (Delivered(r) /\ req'[r].type = "AUTH_STATE_CHANGED") =>
         /\ req'[r].pc = "done"
         /\ resp'[r] = <<[type |-> "LOGOUT_RESULT"]>>
         /\ req'[r].handlers = <<>> /\ req'[r].sent = <<>>
         /\ req'[r].csrfCalls = 0 /\ ~req'[r].injected
         /\ UNCHANGED <<jar, storage, csrf, docRows, watcher>>]_vars

\* The broadcast was delivered to the listener and acknowledged.
C14_Witness ==
  \E r \in Slots : /\ req[r].type = "AUTH_STATE_CHANGED" /\ Answered(r)
                   /\ resp[r] = <<[type |-> "LOGOUT_RESULT"]>>

\* C15: an EXTRACT_PAGE_DATA request makes no API call; when the injection failed
\* or the sanitizer returned null for what the script handed back, it is answered
\* with an ERROR of status 0 that carries an error text; otherwise it is answered
\* PAGE_DATA_RESULT with the sanitizer's non-null result.
C15_PageDataFailsCleanly ==
  \A r \in Slots : req[r].type = "EXTRACT_PAGE_DATA" =>
    /\ req[r].sent = <<>> /\ req[r].csrfCalls = 0
    /\ Answered(r) =>
         /\ Len(resp[r]) = 1
         /\ IF req[r].script = "failed" \/ sanitizePageData(req[r].raw) = Null
            THEN /\ DOMAIN Response(r) = {"type", "status", "error"}
                 /\ Response(r).type = "ERROR" /\ Response(r).status = 0
                 /\ Response(r).error # ""
            ELSE /\ Response(r) = [type |-> "PAGE_DATA_RESULT",
                                   pageData |-> sanitizePageData(req[r].raw)]
                 /\ Response(r).pageData # Null

\* The script ran and handed back an object whose url is a javascript: URL.
C15_Witness ==
  \E r \in Slots : /\ req[r].type = "EXTRACT_PAGE_DATA" /\ Answered(r)
                   /\ req[r].script = "data" /\ req[r].raw.t = "object"
                   /\ req[r].raw.url = Str(<<"javascript:", "alert(1)">>)
                   /\ Response(r) = ErrorResponse(0, "Could not extract page data from this tab")

\* The exceptions ensureCsrfToken throws before apiPost has sent anything.
CsrfFailures ==
  {ApiError(0, "Could not obtain CSRF token", "none"), OtherError("Failed to fetch")}

\* The answer of an EXTRACT_PRODUCT request as a function of its API call alone:
\* the status the POST received, or the exception the call threw without one.
ExtractAnswer(got, err) ==
  IF got = 200 THEN [type |-> "EXTRACT_RESULT"]
  ELSE IF got = 204 \/ err.kind = "Error" THEN [type |-> "ERROR", status |-> 0]
  ELSE [type |-> "ERROR", status |-> err.status]

\* C16: an EXTRACT_PRODUCT whose page-content injection failed or captured no text
\* goes on to apiPost: unless the CSRF token could not be obtained it sends POST
\* /estimate/dynamic once, with the URL-only body, and its answer is the one the API
\* call's outcome determines - EXTRACT_RESULT on 200, the error otherwise - as it is
\* for a request whose injection captured the page.
C16_InjectionFailureNotFatal ==
  \A r \in Slots :
    (req[r].type = "EXTRACT_PRODUCT" /\ req[r].script # "none") =>
      /\ \A i \in 1..Len(req[r].sent) :
           /\ req[r].sent[i].method = "POST" /\ req[r].sent[i].path = "/estimate/dynamic"
           /\ req[r].script \in {"failed", "empty"} => req[r].sent[i].body = "url-only"
           /\ req[r].script = "content" => req[r].sent[i].body = "with-content"
      /\ Answered(r) =>
           /\ Len(req[r].sent) = 1 \/ (req[r].sent = <<>> /\ req[r].err \in CsrfFailures)
           /\ Len(resp[r]) = 1
           /\ LET expected == ExtractAnswer(req[r].got, req[r].err) IN
              /\ Response(r).type = expected.type
              /\ expected.type = "ERROR" => Response(r).status = expected.status

\* A request whose injection failed was answered EXTRACT_RESULT after its POST.
C16_Witness ==
  \E r \in Slots : /\ req[r].type = "EXTRACT_PRODUCT" /\ req[r].script = "failed"
                   /\ Answered(r) /\ Response(r) = [type |-> "EXTRACT_RESULT"]
                   /\ Len(req[r].sent) = 1 /\ req[r].sent[1].body = "url-only"

\* The script of request r ran, and this is what the sanitizer made of its result.
Sanitized(r) ==
  /\ req[r].type = "EXTRACT_PAGE_DATA" /\ Answered(r) /\ req[r].script = "data"

ReturnedNull(r) == Response(r).type = "ERROR"

\* The value is a string that parses as a URL of scheme http or https.
ValidHttpUrl(v) ==
  /\ v.t = "string"
  /\ ParseUrl(v.s).parses /\ ParseUrl(v.s).protocol \in {"http:", "https:"}

\* C17: sanitizePageData returns null for every input that is no object or whose
\* url is missing, no string, of another scheme or does not parse; every record it
\* returns has all of url, title, images, hints and confidence, and its url parses
\* as an http(s) URL.
C17_NullWithoutValidUrl ==
  \A r \in Slots : Sanitized(r) =>
    /\ (req[r].raw.t # "object" \/ ~ValidHttpUrl(req[r].raw.url)) => ReturnedNull(r)
    /\ ~ReturnedNull(r) =>
         /\ DOMAIN Response(r).pageData = {"url", "title", "images", "hints", "confidence"}
         /\ ValidHttpUrl(Str(Response(r).pageData.url))

\* C18: the confidence of a PageData is determined by its sanitized hints: high
\* when jsonLd is set, else medium when it has a non-empty name or price, else low,
\* whatever confidence the raw object carried.
C18_ConfidenceFromHints ==
  \A r \in Slots : (Sanitized(r) /\ ~ReturnedNull(r)) =>
    LET hints == Response(r).pageData.hints
        has(name) == name \in DOMAIN hints
    IN  /\ hints = sanitizeHints(req[r].raw.hints)
        /\ Response(r).pageData.confidence =
             (IF has("jsonLd") /\ hints.jsonLd = TRUE THEN "high"
              ELSE IF (has("name") /\ Len(hints.name) > 0) \/ (has("price") /\ Len(hints.price) > 0)
                   THEN "medium"
              ELSE "low")

\* A page that claimed high confidence with nothing but a price hint was rated medium.
C18_Witness ==
  \E r \in Slots : /\ Sanitized(r) /\ ~ReturnedNull(r)
                   /\ req[r].raw.confidence = Str(<<"high">>)
                   /\ DOMAIN Response(r).pageData.hints = {"price", "manufacturer"}
                   /\ Response(r).pageData.confidence = "medium"

\* The extraction of run n succeeded with confidence high.
ExtractedHigh(run) ==
  /\ run.scripted
  /\ sanitizePageData(run.raw) # Null /\ sanitizePageData(run.raw).confidence = "high"

\* C19: when a run of the badge updater ends, the tab's badge shows the indicator
\* exactly when the run's extraction succeeded with confidence high and the tab is
\* still open, and is empty otherwise; the run's last write was the indicator in the
\* first case and the empty text in every other case of an open tab; and no step of
\* a run changes a request, a response or any other state of the broker.
C19_BadgeAfterRun ==
  [][\A n \in Runs :
       /\ runs'[n] # runs[n] => UNCHANGED broker
       /\ (runs[n].pc # "done" /\ runs'[n].pc = "done") =>
            LET run == runs'[n] IN
            /\ tab'.badge = (IF tab'.open /\ ExtractedHigh(run) THEN "!" ELSE "")
            /\ tab'.open => /\ run.wrote # <<>>
                            /\ run.wrote[Len(run.wrote)] = tab'.badge]_vars

\* A run found a product page and ended with the indicator set.
C19_Witness ==
  \E n \in Runs : /\ runs[n].pc = "done" /\ ExtractedHigh(runs[n])
                  /\ tab.open /\ tab.badge = "!"

LogoutInProgress(r) == req[r].type = "LOGOUT" /\ req[r].pc \notin {"idle", "done"}

\* C20: a LOGOUT in progress is answered, whatever became of POST /auth/logout and
\* of its CSRF token; the step that answers it sends one LOGOUT_RESULT, leaves
\* neither a SESSION nor an XSRF-TOKEN cookie behind and emits one AUTH_STATE_CHANGED
\* broadcast, without waiting for a listener to receive it.
C20_LogoutAcknowledged ==
  /\ [][\A r \in Slots :
          (LogoutInProgress(r) /\ req'[r].pc = "done") =>
            /\ resp'[r] = <<[type |-> "LOGOUT_RESULT"]>>
            /\ ~sessionCookie' /\ xsrfCookie' = NoToken
            /\ broadcasts' = broadcasts + 1]_vars
  /\ (\E r \in Slots : LogoutInProgress(r))
       ~> (\E r \in Slots : req[r].type = "LOGOUT" /\ Answered(r))

\* A LOGOUT whose server call failed with 500 was acknowledged, the cookies gone
\* and the broadcast out.
C20_Witness ==
  \E r \in Slots : /\ req[r].type = "LOGOUT" /\ Answered(r) /\ req[r].got = 500
                   /\ resp[r] = <<[type |-> "LOGOUT_RESULT"]>>
                   /\ ~sessionCookie /\ xsrfCookie = NoToken /\ broadcasts = 1

\* The /csrf fetch the pre-fetch started has settled, and where the pre-fetch has
\* ended it ended in failure.
PrefetchSettled ==
  /\ fetches[Prefetch].state \in {"ok", "failed"}
  /\ req[Prefetch].pc = "done" => req[Prefetch].err # NoError

\* C21: the pre-fetch never answers anyone and its failure stops nothing; the step
\* in which a /csrf call settles, with or without success, clears the in-flight
\* handle; a mutating request that reads the token cookie after the pre-fetch's
\* call has settled, and finds none, starts a /csrf fetch of its own; and once the
\* cookie is there when that request reads it again, the request goes on to its POST
\* with that token.
C21_PrefetchFailureIgnored ==
  [][/\ resp'[Prefetch] = <<>>
     /\ \A f \in Procs :
          (fetches[f].state = "pending" /\ fetches'[f].state # "pending")
            => csrfFetchInFlight' = NoFetch
     /\ \A r \in Slots :
          /\ (PrefetchSettled /\ req[r].pc = "csrf_read1" /\ req'[r].pc # "csrf_read1"
                /\ xsrfCookie = NoToken)
               => req'[r].pc = "csrf_sess"
          /\ (req[r].pc = "csrf_read2" /\ req'[r].pc # "csrf_read2" /\ xsrfCookie # NoToken)
               => (req'[r].pc = "post_sess" /\ req'[r].csrfToken = xsrfCookie)]_vars

\* The pre-fetch failed; a row add that came later fetched a token of its own and
\* succeeded.
C21_Witness ==
  /\ req[Prefetch].pc = "done" /\ req[Prefetch].err # NoError
  /\ fetches[Prefetch].state = "failed"
  /\ \E r \in Slots : AddRowSucceeded(r) /\ req[r].csrfCalls = 1 /\ req[r].awaited = r

\* The first cookie read of ensureCsrfToken, called by p, has just resolved.
FirstRead(p) == req[p].pc = "csrf_read1" /\ req'[p].pc # "csrf_read1"

\* C22: when the first cookie read of ensureCsrfToken finds a token, the call
\* returns that token in the same step - the pre-fetch ends, apiPost or apiPut
\* goes on with the token - without a /csrf call and without reading or changing
\* the in-flight handle, whatever the handle holds.
C22_FastPath ==
  [][\A p \in Procs :
       (FirstRead(p) /\ xsrfCookie # NoToken) =>
         /\ IF p = Prefetch THEN req'[p].pc = "done"
            ELSE /\ req'[p].pc = (IF req[p].type = "API_PUT" THEN "put_sess" ELSE "post_sess")
                 /\ req'[p].csrfToken = xsrfCookie
         /\ req'[p].csrfCalls = 0 /\ req'[p].awaited = NoFetch
         /\ UNCHANGED csrf]_vars

\* A request took the fast path while a /csrf fetch of another caller was in flight.
C22_Witness ==
  \E r \in Slots : /\ req[r].pc = "post_sess" /\ req[r].csrfToken # NoToken
                   /\ req[r].csrfCalls = 0 /\ req[r].awaited = NoFetch
                   /\ csrfFetchInFlight \notin {NoFetch, r}

\* C23: whichever way the awaited /csrf fetch settled, ensureCsrfToken goes on to
\* read the cookie again; that read returns the token when there is one and throws
\* an ApiError of status 0 when there is none.
C23_RereadAfterFetch ==
  [][\A p \in Procs :
       /\ (req[p].pc = "csrf_await" /\ req'[p].pc # "csrf_await") => req'[p].pc = "csrf_read2"
       /\ (req[p].pc = "csrf_read2" /\ req'[p].pc # "csrf_read2") =>
            IF xsrfCookie = NoToken
            THEN req'[p].err = ApiError(0, "Could not obtain CSRF token", "none")
            ELSE /\ req'[p].err = NoError
                 /\ p # Prefetch => (req'[p].pc = "post_sess" /\ req'[p].csrfToken = xsrfCookie)]_vars

\* C24: a 204 answer to a mutating call, POST and PUT alike, makes the call resolve
\* (no error is thrown for it).
C24_NoContentResolves ==
  \A r \in Slots :
    (req[r].type \in {"ADD_ROW_TO_DOCUMENT", "API_PUT"} /\ req[r].got = 204)
      => req[r].err = NoError

UsesApiGet(r) == req[r].type \in {m.type : m \in GetMessages} \cup {"FETCH_DOCUMENT"}

InEnsureCsrfToken(r) == req[r].pc \in {"csrf_read1", "csrf_sess", "csrf_await", "csrf_read2"}

\* C25: every POST and every PUT sent carries as X-XSRF-TOKEN a non-empty token,
\* the one ensureCsrfToken returned to the call; a GET carries none, and a request
\* served by apiGet is never inside ensureCsrfToken and has started no /csrf fetch.
C25_TokenOnMutations ==
  \A r \in Slots :
    /\ \A i \in 1..Len(req[r].sent) :
         IF req[r].sent[i].method = "GET"
         THEN req[r].sent[i].token = NoToken
         ELSE req[r].sent[i].token # NoToken /\ req[r].sent[i].token = req[r].csrfToken
    /\ UsesApiGet(r) =>
         /\ ~InEnsureCsrfToken(r) /\ req[r].csrfToken = NoToken
         /\ req[r].csrfCalls = 0 /\ req[r].awaited = NoFetch
         /\ fetches[r].state = "none"

C25_Witness ==
  \E r \in Slots :
    /\ req[r].type = "API_PUT" /\ req[r].csrfCalls = 1
    /\ Len(req[r].sent) = 1 /\ req[r].sent[1].method = "PUT"
    /\ req[r].sent[1].token = req[r].csrfToken /\ req[r].csrfToken # NoToken
    /\ fetches[r].state = "ok"

NetworkError == OtherError("Failed to fetch")

\* C26: the step in which a rejected fetch (of the API call or of the /csrf call)
\* fails the invocation of any handler but handleLogout also answers the request,
\* with an ERROR response of status 0 that carries the exception's message and not
\* the exception.
C26_NetworkFailureAnswered ==
  [][\A r \in Slots :
       (req[r].err = NoError /\ req'[r].err = NetworkError /\ req'[r].type # "LOGOUT")
         => /\ req'[r].pc = "done"
            /\ resp'[r] = <<ErrorResponse(0, NetworkError.message)>>]_vars

C26_Witness ==
  \E r \in Slots :
    /\ req[r].type = "ADD_ROW_TO_DOCUMENT" /\ req[r].err = NetworkError
    /\ req[r].csrfCalls = 1 /\ req[r].sent = <<>>
    /\ resp[r] = <<ErrorResponse(0, NetworkError.message)>>

\* C27 as stated: storage.local only ever holds lastDocumentUuid, lastTabId and
\* onboardingComplete.
C27_ThreeLocalKeys ==
  DOMAIN localStore \subseteq {"lastDocumentUuid", "lastTabId", "onboardingComplete"}

\* C27: storage.local only ever holds lastDocumentUuid, lastTabId,
\* onboardingComplete and language, none of them under a token's or the session's
\* name; in session storage only the document/tab cache is written, the authState
\* snapshot is at most removed.
C27_NoTokenStored ==
  /\ [](DOMAIN localStore \subseteq
          {"lastDocumentUuid", "lastTabId", "onboardingComplete", "language"})
  /\ [][authState' # authState => ~authState']_vars

C27_Witness ==
  /\ DOMAIN localStore =
       {"lastDocumentUuid", "lastTabId", "onboardingComplete", "language"}
  /\ localStore.lastDocumentUuid = "V"
  /\ docRows["V"] > 0 /\ xsrfCookie # NoToken /\ ~sessionCookie /\ ~authState

Failed(r) == req[r].err # NoError

\* C28: a FETCH_DOCUMENT whose API call failed has ended without preparing or
\* issuing a cache write, and a row add that failed (success:false included) has
\* deleted no cache entry: the step in which a request fails leaves the cache as it
\* was; the step that settles a /csrf fetch leaves the in-flight handle null, and
\* the handle never refers to the settled fetch of a failed request.
C28_FailureLeavesNoTrace ==
  /\ [](\A r \in Slots :
          /\ (req[r].type = "FETCH_DOCUMENT" /\ Failed(r))
               => (req[r].pc = "done" /\ req[r].docs = IdleReq.docs)
          /\ (req[r].type = "ADD_ROW_TO_DOCUMENT" /\ Failed(r))
               => (req[r].pc = "done" /\ ~req[r].deleted /\ req[r].docs = IdleReq.docs)
          /\ (Failed(r) /\ fetches[r].state \in {"ok", "failed"}) => csrfFetchInFlight # r)
  /\ [][/\ \A r \in Slots : (~Failed(r) /\ req'[r].err # NoError) => UNCHANGED cachedDocuments
        /\ \A r \in Slots : (fetches[r].state = "pending" /\ fetches'[r].state # "pending")
                               => csrfFetchInFlight' = NoFetch]_vars

C28_Witness ==
  \E r \in Slots :
    /\ Answered(r) /\ Response(r).type = "ADD_ROW_RESULT" /\ ~Response(r).success
    /\ req[r].csrfCalls = 1 /\ fetches[r].state = "ok" /\ csrfFetchInFlight = NoFetch
    /\ cachedDocuments[req[r].documentUuid] # NoEntry

\* C29: the step in which a FETCH_DOCUMENT for U answers DOCUMENT_RESULT, its cache
\* write done, leaves an entry for U in the cache unless storage rejected the
\* write, and leaves the entry of every other document as it was; the request is
\* answered with DOCUMENT_RESULT also when storage rejected the write.
C29_PopulateKeepsOthers ==
  [][\A r \in Slots :
       (req[r].pc = "cache_write" /\ req'[r].pc = "done") =>
         /\ resp'[r] = <<[type |-> "DOCUMENT_RESULT", rows |-> req[r].rows]>>
         /\ ~storageFails => cachedDocuments'[req[r].documentUuid] # NoEntry
         /\ \A d \in Docs \ {req[r].documentUuid} :
              cachedDocuments'[d] = cachedDocuments[d]]_vars

\* C30: csrfFetchInFlight is non-null exactly while a /csrf fetch that was started
\* has not settled, and the settling of one fetch leaves the handle alone when the
\* handle refers to another fetch that is still outstanding.
C30_HandleTracksFetches ==
  /\ []((csrfFetchInFlight # NoFetch) <=> (\E f \in Procs : fetches[f].state = "pending"))
  /\ [][\A f \in Procs :
          (/\ fetches[f].state = "pending" /\ fetches'[f].state # "pending"
           /\ csrfFetchInFlight \notin {NoFetch, f}
           /\ fetches'[csrfFetchInFlight].state = "pending")
            => csrfFetchInFlight' = csrfFetchInFlight]_vars

\* The badge the updater sets for a page.
BadgeFor(page) ==
  IF /\ HasHttpPrefix(page.url) /\ page.scriptable
     /\ sanitizePageData(page.raw) # Null
     /\ sanitizePageData(page.raw).confidence = "high"
  THEN "!" ELSE ""

\* C31: once every run of the badge updater has finished, and an event has fired
\* for the page the tab shows, the badge is the one for that page.
C31_BadgeOfLatestEvent ==
  (NoRunInProgress /\ tab.open /\ tab.fresh) => tab.badge = BadgeFor(tab.page)

WatcherBusy == events # <<>> \/ pendingOps # [xsrf |-> 0, auth |-> 0] \/ broadcasts > 0

\* C32: handling the event of an XSRF-TOKEN removal requests no removal and sends
\* no broadcast, and the removal of the authState snapshot queues no event; once
\* the watcher has work - after a LOGOUT removed the SESSION cookie - it comes to
\* rest with no event queued, no removal pending and no broadcast outstanding.
C32_WatcherComesToRest ==
  /\ [][/\ (EventHandled /\ Head(events).name = "XSRF-TOKEN")
             => UNCHANGED <<jar, storage, pendingOps, broadcasts>>
        /\ pendingOps'.auth < pendingOps.auth => events' = events]_vars
  /\ WatcherBusy ~> ~WatcherBusy

C32_Witness ==
  /\ events = <<CookieEvent("XSRF-TOKEN", appHostname, TRUE)>>
  /\ pendingOps = [xsrf |-> 0, auth |-> 1] /\ ~sessionCookie
  /\ \E r \in Slots : req[r].type = "LOGOUT" /\ Answered(r)

\* C37: while the panel is not authenticated and its initial check has finished,
\* the 2 s timer exists and each of its ticks, like every AUTH_STATE_CHANGED
\* message, issues a new CHECK_AUTH; a login of the user is eventually
\* reflected by isAuthenticated; once authenticated the timer is gone.
C37_PollsUntilSignedIn ==
  /\ [](ENABLED PollTick <=> (~ui.isAuthenticated /\ ~ui.isLoading))
  /\ [][(PollTick \/ AuthStateChanged)
          => \E c \in Awaits("CHECK_AUTH")' : c.latest /\ c.answer = "none"]_vars
  /\ (env.loggedIn /\ ~ui.isAuthenticated) ~> (ui.isAuthenticated \/ ~env.loggedIn)

\* The answer to a check that the timer issued is about to sign the panel in.
C37_Witness ==
  /\ ~ui.isAuthenticated /\ ~ui.isLoading /\ env.loggedIn
  /\ ui.checkedBy = "poll"
  /\ \E c \in Awaits("CHECK_AUTH") : c.latest /\ c.answer = "yes"

\* C38: once the CHECK_AUTH issued last has been answered, the answer to a
\* check issued before it does not change isAuthenticated.
C38_LatestCheckStands ==
  [][\A c \in Awaits("CHECK_AUTH") :
       (CheckAuthSettles(c) /\ \A d \in Awaits("CHECK_AUTH") : ~d.latest)
         => ui'.isAuthenticated = ui.isAuthenticated]_vars

\* What the clearing effect is there to clear.
SessionData ==
  {"extractedData", "selectedDocumentUuid", "selectedTabId", "selectedDocument",
   "usage", "successInfo", "errorMessage"}

\* C33: while the panel is authenticated, none of the session's data in its state
\* came from a call issued before the last logout, and the panel is idle when it
\* becomes authenticated.
C33_LogoutClearsSession ==
  /\ [](ui.isAuthenticated => ui.prior \cap SessionData = {})
  /\ [][(~ui.isAuthenticated /\ ui'.isAuthenticated /\ ~ui'.isLoading)
          => ui'.appState = "idle"]_vars

\* C34: with every call answered, the panel does not stay in 'extracting': it
\* comes to preview, error, idle or not-authenticated.
C34_ExtractingEnds ==
  (ui.appState = "extracting")
    ~> (ui.appState \in {"preview", "error", "idle", "not-authenticated"})

Range(f) == {f[i] : i \in DOMAIN f}

\* C35: the document held is the one selected, the tab selected is one of its
\* tabs, and no ADD_ROW_TO_DOCUMENT names a tab of another document.
C35_SelectionConsistent ==
  /\ ui.selectedDocument # "" => ui.selectedDocument = ui.selectedDocumentUuid
  /\ ui.selectedTabId # "" => /\ ui.selectedDocumentUuid # ""
                              /\ ui.selectedTabId \in Range(TabsOf(ui.selectedDocumentUuid))
  /\ \A c \in Awaits("ADD_ROW_TO_DOCUMENT") : c.tab \in Range(TabsOf(c.arg))

\* C36: once the user has selected a document, the continuations of the
\* restoration leave the selection as it is.
C36_RestorationKeepsManual ==
  [][(/\ ui.manual # ""
      /\ \E c \in Awaiting :
           \/ StorageGetSettles(c)
           \/ c.then = "restore" /\ \E ok \in BOOLEAN : FetchDocumentSettles(c, ok))
       => /\ ui'.selectedDocumentUuid = ui.selectedDocumentUuid
          /\ ui'.selectedDocument = ui.selectedDocument
          /\ ui'.selectedTabId = ui.selectedTabId]_vars

\* C39: at most one sign-in window exists or is being created at any time, and
\* the window recorded by AuthGate is one that exists.
C39_OneSignInPopup ==
  /\ Cardinality(env.windows \cup {c.id : c \in Awaits("windows.create")}) <= 1
  /\ ui.popupWindowId # 0 => ui.popupWindowId \in env.windows

====
